---- MODULE Spec2Model ----
(***************************************************************************)
(* A model of the biotools diversity-estimation core:                      *)
(*   helpers/grid_utils.py       convert_to_resolution                     *)
(*   helpers/data_loader.py      group_by_grid_cell                        *)
(*   helpers/analysis_methods.py the estimators                            *)
(*   helpers/calculate_completeness.py  calculate_completeness             *)
(*                                                                         *)
(* Python values are modelled as follows.                                  *)
(*   str      a sequence of one-character strings, <<"6","7",":","3">>     *)
(*   float    an IEEE 754 double [sign, m, e], every operation rounded     *)
(*   int      an integer; where it meets a float, the float of its value   *)
(*   a returned value   [tag, val]: tag "str" (val the string), "None",    *)
(*            "raise" (val the exception's name), "unset" (not computed)   *)
(***************************************************************************)
EXTENDS Integers, Sequences, FiniteSets, TLC

VARIABLES
    grid_cell,              \* convert_to_resolution: argument grid_cell
    target_resolution_km,   \* convert_to_resolution: argument target_resolution_km
    converted,              \* value returned by convert_to_resolution(grid_cell, ..)
    reconverted,            \* value returned when the returned key is converted again
    records,                \* group_by_grid_cell: argument records
    resolution_km,          \* group_by_grid_cell: argument resolution_km
    area_records,           \* the AreaRecords mapping (grid cell -> species list)
    species_list,           \* one cell's species list (argument of the per-cell functions)
    S_est,                  \* value returned by calculate_chao1_estimator
    completeness,           \* value returned by calculate_completeness
    incompleteness,         \* value returned by calculate_incompleteness
    accumulation_curve,     \* argument of calculate_accumulation_slope
    slope,                  \* value returned by calculate_accumulation_slope
    n_iterations_arg,       \* build_accumulation_curve: argument n_iterations
    averaged_curve,         \* value returned by build_accumulation_curve
    values_dict,            \* value returned by an estimator over area_records
    method,                 \* name of the analysis method that produced values_dict
    data_with_colors,       \* value returned by add_colors_to_values
    input_file,             \* process_data: what reading the input file gives
    map_ok,                 \* process_data: what create_finland_map returns
    outcome,                \* process_data: returned, or the exception raised
    effects,                \* process_data: the steps performed, in order
    configs,                \* generate_map: the configurations loaded, by name
    config_names,           \* generate_map main: the configuration names to run
    reports,                \* generate_map main: one entry per run_config call made
    success_count,          \* generate_map main: success_count
    exit_status             \* generate_map main: exit status of the process, once ended

vars == <<grid_cell, target_resolution_km, converted, reconverted, records,
          resolution_km, area_records, species_list, S_est, completeness,
          incompleteness, accumulation_curve, slope, n_iterations_arg,
          averaged_curve, values_dict, method,
          data_with_colors, input_file, map_ok, outcome, effects,
          configs, config_names, reports, success_count, exit_status>>

gridVars  == <<grid_cell, target_resolution_km, converted, reconverted>>
groupVars == <<records, resolution_km>>
cellVars  == <<species_list, S_est, completeness, incompleteness>>
curveVars == <<accumulation_curve, slope, n_iterations_arg, averaged_curve>>
pipeVars  == <<method, data_with_colors, input_file, map_ok, outcome, effects>>
cliVars   == <<configs, config_names, reports, success_count, exit_status>>

(***************************************************************************)
(* Bounds of the model.                                                    *)
(***************************************************************************)
MaxDigits   == 5    \* longest digit string drawn for one key component
MaxRawLen   == 4    \* longest key drawn over the whole alphabet (malformed keys)
MaxRecords  == 3    \* longest record sequence given to group_by_grid_cell
MaxListLen  == 4    \* longest species list drawn for the per-cell functions
MaxCurveLen == 12   \* longest curve given to calculate_accumulation_slope
MaxCellLen  == 3    \* longest species list inside an AreaRecords mapping

(***************************************************************************)
(* Python values.                                                          *)
(***************************************************************************)
Unset      == [tag |-> "unset", val |-> <<>>]
None       == [tag |-> "None", val |-> <<>>]
Str(s)     == [tag |-> "str", val |-> s]
Raise(exc) == [tag |-> "raise", val |-> <<exc>>]

Range(s) == {s[i] : i \in DOMAIN s}

RECURSIVE Pow10(_)
Pow10(k) == IF k <= 0 THEN 1 ELSE 10 * Pow10(k - 1)

Abs(n) == IF n < 0 THEN -n ELSE n

(***************************************************************************)
(* Python strings: str.split, int(), str(int), the format spec 0{w}d.      *)
(***************************************************************************)
DigitChars == {"0", "1", "2", "3", "4", "5", "6", "7", "8", "9"}

DigitValue(c) ==
    CASE c = "0" -> 0 [] c = "1" -> 1 [] c = "2" -> 2 [] c = "3" -> 3
      [] c = "4" -> 4 [] c = "5" -> 5 [] c = "6" -> 6 [] c = "7" -> 7
      [] c = "8" -> 8 [] c = "9" -> 9

DigitChar(d) ==
    CASE d = 0 -> "0" [] d = 1 -> "1" [] d = 2 -> "2" [] d = 3 -> "3"
      [] d = 4 -> "4" [] d = 5 -> "5" [] d = 6 -> "6" [] d = 7 -> "7"
      [] d = 8 -> "8" [] d = 9 -> "9"

\* s.split(sep): the pieces of s between the occurrences of sep.
RECURSIVE split(_, _)
split(s, sep) ==
    IF \A i \in 1..Len(s) : s[i] # sep
    THEN <<s>>
    ELSE LET i == CHOOSE k \in 1..Len(s) :
                     s[k] = sep /\ \A j \in 1..(k - 1) : s[j] # sep
         IN  <<SubSeq(s, 1, i - 1)>> \o split(SubSeq(s, i + 1, Len(s)), sep)

\* The characters that int() skips around a literal: blank, tab, newline,
\* carriage return, form feed and vertical tab, and the Unicode spaces, of
\* which a string of the model (characters up to U+00FF) can hold the next
\* line control U+0085 and the no-break space U+00A0.  The separators
\* U+001C..U+001F are not skipped.
Whitespace == {" ", "\t", "\n", "\r", "\f", "", "", " "}

\* The literal int() parses: s without its leading and trailing whitespace.
RECURSIVE strip(_)
strip(s) ==
    IF Len(s) = 0 THEN s
    ELSE IF s[1] \in Whitespace THEN strip(Tail(s))
    ELSE IF s[Len(s)] \in Whitespace THEN strip(SubSeq(s, 1, Len(s) - 1))
    ELSE s

\* The value of a string of decimal digits.
RECURSIVE DecimalValue(_)
DecimalValue(ds) ==
    IF Len(ds) = 0 THEN 0
    ELSE 10 * DecimalValue(SubSeq(ds, 1, Len(ds) - 1)) + DigitValue(ds[Len(ds)])

\* int(s): whitespace around, an optional sign, then digits with single
\* underscores allowed between them; anything else raises ValueError.
int(s) ==
    LET t      == strip(s)
        signed == Len(t) > 0 /\ t[1] \in {"+", "-"}
        body   == IF signed THEN Tail(t) ELSE t
        valid  == /\ Len(body) > 0
                  /\ body[1] \in DigitChars
                  /\ body[Len(body)] \in DigitChars
                  /\ \A i \in 1..Len(body) :
                        \/ body[i] \in DigitChars
                        \/ body[i] = "_" /\ body[i + 1] \in DigitChars
        mag    == DecimalValue(SelectSeq(body, LAMBDA c : c \in DigitChars))
    IN  IF ~valid THEN [ok |-> FALSE, val |-> 0]
        ELSE [ok |-> TRUE, val |-> IF signed /\ t[1] = "-" THEN -mag ELSE mag]

\* str(n) for n >= 0.
RECURSIVE IntToStr(_)
IntToStr(n) ==
    IF n < 10 THEN <<DigitChar(n)>>
    ELSE IntToStr(n \div 10) \o <<DigitChar(n % 10)>>

RECURSIVE ZeroPad(_, _)
ZeroPad(s, width) == IF Len(s) >= width THEN s ELSE ZeroPad(<<"0">> \o s, width)

\* A format that forgets the leading zeros: f"{n}".
format_plain(n, width) ==
    IF n < 0 THEN <<"-">> \o IntToStr(-n) ELSE IntToStr(n)

\* f"{n:0{width}d}": sign-aware zero padding to a minimum width.
format_0d(n, width) ==
    IF n < 0 THEN <<"-">> \o ZeroPad(IntToStr(-n), width - 1)
    ELSE ZeroPad(IntToStr(n), width)

(***************************************************************************)
(* helpers/grid_utils.py                                                   *)
(***************************************************************************)
ValidResolutions == {1, 10, 50, 100}

\* A chain whose else branch falls back to the 100 km width.
digits_needed_default(target) ==
    IF target = 1 THEN 4
    ELSE IF target = 10 THEN 3
    ELSE IF target = 50 THEN 3
    ELSE 2

\* The if/elif chain of lines 21-30; 0 stands for the else branch (return None).
digits_needed(target) ==
    IF target = 1 THEN 4
    ELSE IF target = 10 THEN 3
    ELSE IF target = 50 THEN 3
    ELSE IF target = 100 THEN 2
    ELSE 0

\* A truncation that rounds to the nearest unit instead of discarding digits.
truncate_or_pad_rounding(value, current_digits, needed) ==
    IF current_digits > needed
    THEN (value + 5 * Pow10(current_digits - needed - 1)) \div Pow10(current_digits - needed)
    ELSE IF current_digits < needed
    THEN value * Pow10(needed - current_digits)
    ELSE value

\* Lines 41-46 (and 48-53): truncate from the right, or pad with zeros.
truncate_or_pad(value, current_digits, needed) ==
    IF current_digits > needed
    THEN value \div Pow10(current_digits - needed)
    ELSE IF current_digits < needed
    THEN value * Pow10(needed - current_digits)
    ELSE value

\* A 50 km step that aligns to multiples of 10 instead of 5.
round_50_tens(value, target) ==
    IF target = 50 THEN (value \div 10) * 10 ELSE value

\* Lines 56-58: at 50 km the last digit becomes 0 or 5.
round_50(value, target) ==
    IF target = 50 THEN (value \div 5) * 5 ELSE value

\* The body of the try block: a returned value, or the exception it raises.
convert_try(cell, target) ==
    LET parts == split(cell, ":")
    IN  IF Len(parts) # 2 THEN Raise("ValueError")        \* unpacking into two names
        ELSE IF digits_needed(target) = 0 THEN None
        ELSE LET northing_str == parts[1]
                 easting_str  == parts[2]
                 needed   == digits_needed(target)
                 n        == int(northing_str)
                 e        == int(easting_str)
             IN  IF ~n.ok \/ ~e.ok THEN Raise("ValueError")
                 ELSE LET northing == round_50(truncate_or_pad(n.val, Len(northing_str), needed), target)
                          easting  == round_50(truncate_or_pad(e.val, Len(easting_str), needed), target)
                      IN  Str(format_0d(northing, needed) \o <<":">> \o format_0d(easting, needed))

\* except (ValueError, AttributeError): return None
CaughtExceptions == {"ValueError", "AttributeError"}

\* The conversion without its except clause.
convert_to_resolution_uncaught(cell, target) == convert_try(cell, target)

convert_to_resolution(cell, target) ==
    LET r == convert_try(cell, target)
    IN  IF r.tag = "raise" /\ r.val[1] \in CaughtExceptions THEN None ELSE r

(***************************************************************************)
(* helpers/data_loader.py                                                  *)
(***************************************************************************)
Dict(f) == [tag |-> "dict", val |-> f]

EmptyDict == [k \in {} |-> <<>>]

\* An append that keeps one entry per species (a set instead of a list).
append_unique(area, key, name) ==
    IF key \in DOMAIN area
    THEN IF name \in Range(area[key]) THEN area
         ELSE [area EXCEPT ![key] = Append(@, name)]
    ELSE [k \in DOMAIN area \cup {key} |-> IF k = key THEN <<name>> ELSE area[k]]

\* area_records[key].append(name) on a defaultdict(list), line 85.
append_record(area, key, name) ==
    IF key \in DOMAIN area
    THEN [area EXCEPT ![key] = Append(@, name)]
    ELSE [k \in DOMAIN area \cup {key} |-> IF k = key THEN <<name>> ELSE area[k]]

\* The for loop of lines 75-85 over the records still to be read.
RECURSIVE group_loop(_, _, _)
group_loop(recs, resolution, area) ==
    IF Len(recs) = 0 THEN Dict(area)
    ELSE LET record              == Head(recs)
             cell                == record.gridCellYKJ
             scientific_name     == record.scientificName
             converted_grid_cell == convert_to_resolution(cell, resolution)
         IN  IF converted_grid_cell.tag = "raise" THEN converted_grid_cell
             ELSE IF converted_grid_cell.tag = "None"
             THEN group_loop(Tail(recs), resolution, area)           \* continue
             ELSE group_loop(Tail(recs), resolution,
                             append_record(area, converted_grid_cell.val, scientific_name))

group_by_grid_cell(recs, resolution) == group_loop(recs, resolution, EmptyDict)

(***************************************************************************)
(* Exact quotients of two ints: the value of a decimal literal or of an    *)
(* int / int division before it is rounded to a float.                     *)
(***************************************************************************)
RECURSIVE GCD(_, _)
GCD(a, b) == IF b = 0 THEN a ELSE GCD(b, a % b)

Rat(n, d) ==
    LET g == GCD(Abs(n), Abs(d))
    IN  IF d < 0 THEN [num |-> (-n) \div g, den |-> (-d) \div g]
        ELSE [num |-> n \div g, den |-> d \div g]

FromInt(n)   == [num |-> n, den |-> 1]

Float(r) == [tag |-> "float", val |-> r]

(***************************************************************************)
(* Python floats: IEEE 754 binary64 arithmetic.  A float is [sign, m, e]   *)
(* with value sign * m * 2^e, where m is zero or a natural number of       *)
(* exactly 53 bits; each operation gives the exact result rounded to the   *)
(* nearest float, ties to the even mantissa.  Naturals beyond 31 bits are  *)
(* sequences of limbs in base 2^15, lowest limb first, without leading     *)
(* zero limbs.  Subnormal numbers, infinities, NaN and the negative zero   *)
(* are outside the values the functions receive and are not modelled.      *)
(***************************************************************************)
LimbBits == 15
LimbBase == 2^LimbBits

Pow2Small == [k \in 0..LimbBits |-> 2^k]

Limb(a, i) == IF i <= Len(a) THEN a[i] ELSE 0

RECURSIVE BigNorm(_)
BigNorm(a) ==
    IF Len(a) > 0 /\ a[Len(a)] = 0 THEN BigNorm(SubSeq(a, 1, Len(a) - 1)) ELSE a

RECURSIVE BigFromInt(_)
BigFromInt(n) ==
    IF n = 0 THEN <<>> ELSE <<n % LimbBase>> \o BigFromInt(n \div LimbBase)

RECURSIVE BigToInt(_)
BigToInt(a) ==
    IF Len(a) = 0 THEN 0 ELSE a[1] + LimbBase * BigToInt(Tail(a))

RECURSIVE BigCmpFrom(_, _, _)
BigCmpFrom(a, b, i) ==
    IF i = 0 THEN 0
    ELSE IF a[i] > b[i] THEN 1
    ELSE IF a[i] < b[i] THEN -1
    ELSE BigCmpFrom(a, b, i - 1)

\* -1, 0 or 1 as a < b, a = b or a > b.
BigCmp(a, b) ==
    IF Len(a) > Len(b) THEN 1
    ELSE IF Len(a) < Len(b) THEN -1
    ELSE BigCmpFrom(a, b, Len(a))

RECURSIVE BigAddFrom(_, _, _, _, _)
BigAddFrom(a, b, i, carry, acc) ==
    IF i > Len(a) /\ i > Len(b)
    THEN IF carry = 0 THEN acc ELSE Append(acc, carry)
    ELSE BigAddFrom(a, b, i + 1, (Limb(a, i) + Limb(b, i) + carry) \div LimbBase,
                    Append(acc, (Limb(a, i) + Limb(b, i) + carry) % LimbBase))

BigAdd(a, b) == BigAddFrom(a, b, 1, 0, <<>>)

RECURSIVE BigSubFrom(_, _, _, _, _)
BigSubFrom(a, b, i, borrow, acc) ==
    IF i > Len(a) THEN acc
    ELSE IF a[i] - Limb(b, i) - borrow < 0
    THEN BigSubFrom(a, b, i + 1, 1, Append(acc, a[i] - Limb(b, i) - borrow + LimbBase))
    ELSE BigSubFrom(a, b, i + 1, 0, Append(acc, a[i] - Limb(b, i) - borrow))

\* a - b for a >= b.
BigSub(a, b) == BigNorm(BigSubFrom(a, b, 1, 0, <<>>))

RECURSIVE BigMulSmallFrom(_, _, _, _, _)
BigMulSmallFrom(a, k, i, carry, acc) ==
    IF i > Len(a)
    THEN IF carry = 0 THEN acc ELSE Append(acc, carry)
    ELSE BigMulSmallFrom(a, k, i + 1, (a[i] * k + carry) \div LimbBase,
                         Append(acc, (a[i] * k + carry) % LimbBase))

\* a * k for one limb k.
BigMulSmall(a, k) == IF k = 0 THEN <<>> ELSE BigMulSmallFrom(a, k, 1, 0, <<>>)


RECURSIVE BigMulFrom(_, _, _, _)
BigMulFrom(a, b, j, acc) ==
    IF j > Len(b) THEN acc
    ELSE BigMulFrom(a, b, j + 1,
                    IF b[j] = 0 THEN acc
                    ELSE BigAdd(acc, [i \in 1..(j - 1) |-> 0] \o BigMulSmall(a, b[j])))

BigMul(a, b) == IF Len(a) = 0 \/ Len(b) = 0 THEN <<>> ELSE BigMulFrom(a, b, 1, <<>>)

\* a * 2^k.
BigShl(a, k) ==
    IF Len(a) = 0 THEN a
    ELSE [i \in 1..(k \div LimbBits) |-> 0] \o BigMulSmall(a, Pow2Small[k % LimbBits])

RECURSIVE BitsOfLimb(_)
BitsOfLimb(x) == IF x = 0 THEN 0 ELSE 1 + BitsOfLimb(x \div 2)

\* The number of binary digits of a.
BigBitLen(a) ==
    IF Len(a) = 0 THEN 0 ELSE LimbBits * (Len(a) - 1) + BitsOfLimb(a[Len(a)])

\* Binary digit i of a, digit 0 the lowest.
BigBit(a, i) == (Limb(a, (i \div LimbBits) + 1) \div Pow2Small[i % LimbBits]) % 2

\* floor(rest / 2^bits) for bits below LimbBits.
BigShrBits(rest, bits) ==
    BigNorm([i \in 1..Len(rest) |->
                (rest[i] \div Pow2Small[bits])
                    + (Limb(rest, i + 1) % Pow2Small[bits]) * Pow2Small[LimbBits - bits]])

\* floor(a / 2^k).
BigShr(a, k) ==
    IF k \div LimbBits >= Len(a) THEN <<>>
    ELSE BigShrBits(SubSeq(a, (k \div LimbBits) + 1, Len(a)), k % LimbBits)

\* The largest limb t <= guess with t * d <= r.
RECURSIVE QuotientLimb(_, _, _)
QuotientLimb(r, d, guess) ==
    IF guess = 0 \/ BigCmp(BigMulSmall(d, guess), r) <= 0 THEN guess
    ELSE QuotientLimb(r, d, guess - 1)

\* The two highest limbs of r by the highest limb of d, at most one limb.
GuessLimb(r, d) ==
    IF (Limb(r, Len(d) + 1) * LimbBase + r[Len(d)]) \div d[Len(d)] >= LimbBase
    THEN LimbBase - 1
    ELSE (Limb(r, Len(d) + 1) * LimbBase + r[Len(d)]) \div d[Len(d)]

DivideBy(r, d, limb) == [q |-> limb, r |-> BigSub(r, BigMulSmall(d, limb))]

\* One step of long division in base 2^15, for a divisor d whose highest
\* limb is at least 2^14 and r < d * 2^15: the next limb of the quotient is
\* guessed from the two highest limbs of r and lowered until it fits.
DivideStep(r, d) ==
    IF BigCmp(r, d) < 0 THEN [q |-> 0, r |-> r]
    ELSE DivideBy(r, d, QuotientLimb(r, d, GuessLimb(r, d)))

\* Long division over the limbs j down to 1 of n; q and r are the quotient
\* and the remainder of the limbs above, step the division of the limb j.
RECURSIVE BigDivModLimbs(_, _, _, _, _)
RECURSIVE BigDivModNext(_, _, _, _, _)
BigDivModNext(n, d, j, q, step) ==
    IF step.q + Len(step.r) >= 0
    THEN BigDivModLimbs(n, d, j - 1, <<step.q>> \o q, step.r)
    ELSE step

BigDivModLimbs(n, d, j, q, r) ==
    IF j = 0 THEN [q |-> BigNorm(q), r |-> r]
    ELSE BigDivModNext(n, d, j, q, DivideStep(BigNorm(<<n[j]>> \o r), d))

BigDivModScaled(n, d) == BigDivModLimbs(n, d, Len(n), <<>>, <<>>)

BigDivModUnscale(scaled, shift) == [q |-> scaled.q, r |-> BigShr(scaled.r, shift)]

BigDivModShift(n, d, shift) ==
    BigDivModUnscale(BigDivModScaled(BigShl(n, shift), BigShl(d, shift)), shift)

\* Quotient and remainder of n by d, for d > 0.  Both are first multiplied
\* by the power of two that brings the highest limb of d to 2^14 or more.
BigDivMod(n, d) == BigDivModShift(n, d, LimbBits - BitsOfLimb(d[Len(d)]))

MantissaBits == 53

FloatZero == [sign |-> 1, m |-> <<>>, e |-> 0]

\* A mantissa that rounding has carried to 54 bits is halved.
RoundCarry(sign, m, e) ==
    IF BigBitLen(m) > MantissaBits
    THEN [sign |-> sign, m |-> BigShr(m, 1), e |-> e + 1]
    ELSE [sign |-> sign, m |-> m, e |-> e]

RoundUp(sign, m, up, e) == RoundCarry(sign, IF up THEN BigAdd(m, <<1>>) ELSE m, e)

\* Rounding to nearest, ties to the even mantissa: c compares twice the
\* remainder with the divisor.
RoundsUp(c, m) == c > 0 \/ (c = 0 /\ BigBit(m, 0) = 1)

\* dm is the quotient and the remainder of the scaled division by d.  A
\* quotient of 54 bits gives its lowest bit to the rounding.
RoundQuotient(sign, dm, d, e) ==
    IF BigBitLen(dm.q) > MantissaBits
    THEN RoundUp(sign, BigShr(dm.q, 1),
                 BigBit(dm.q, 0) = 1 /\ (Len(dm.r) > 0 \/ BigBit(dm.q, 1) = 1),
                 e + 1)
    ELSE RoundUp(sign, dm.q, RoundsUp(BigCmp(BigAdd(dm.r, dm.r), d), dm.q), e)

\* p / q scaled by 2^s, so that the quotient has 53 or 54 bits.
RoundScaled(sign, p, q, x, s) ==
    IF s >= 0
    THEN RoundQuotient(sign, BigDivMod(BigShl(p, s), q), q, x - s)
    ELSE RoundQuotient(sign, BigDivMod(p, BigShl(q, -s)), BigShl(q, -s), x - s)

\* sign * (p / q) * 2^x rounded to the nearest float, ties to even.
RoundToFloat(sign, p, q, x) ==
    IF Len(p) = 0 THEN FloatZero
    ELSE RoundScaled(sign, p, q, x, MantissaBits - (BigBitLen(p) - BigBitLen(q)))

\* float(n / d) for integers n and d > 0: the float nearest to the quotient.
float_of(x) ==
    RoundToFloat(IF x.num < 0 THEN -1 ELSE 1, BigFromInt(Abs(x.num)), BigFromInt(x.den), 0)

\* sa * ma - sb * mb, both in units of 2^e.
FloatDiffAligned(sa, ma, sb, mb, e) ==
    IF sa # sb THEN [sign |-> sa, m |-> BigAdd(ma, mb), e |-> e]
    ELSE IF BigCmp(ma, mb) >= 0 THEN [sign |-> sa, m |-> BigSub(ma, mb), e |-> e]
    ELSE [sign |-> -sa, m |-> BigSub(mb, ma), e |-> e]

FloatDiffAt(a, b, e) ==
    FloatDiffAligned(a.sign, BigShl(a.m, a.e - e), b.sign, BigShl(b.m, b.e - e), e)

\* The exact difference a - b as [sign, m, e], m not rounded.
FloatDiff(a, b) ==
    IF Len(b.m) = 0 THEN a
    ELSE IF Len(a.m) = 0 THEN [sign |-> -b.sign, m |-> b.m, e |-> b.e]
    ELSE FloatDiffAt(a, b, IF a.e < b.e THEN a.e ELSE b.e)

FloatRound(x) == RoundToFloat(x.sign, x.m, <<1>>, x.e)

FloatNegative(x) == Len(x.m) > 0 /\ x.sign = -1

\* a - b
float_sub(a, b) == FloatRound(FloatDiff(a, b))

\* a * b
float_mul(a, b) == RoundToFloat(a.sign * b.sign, BigMul(a.m, b.m), <<1>>, a.e + b.e)

\* a / b for b # 0
float_div(a, b) == RoundToFloat(a.sign * b.sign, a.m, b.m, a.e - b.e)

\* a < b
float_lt(a, b) == FloatNegative(FloatDiff(a, b))

\* a + b, as a - (-b)
float_add(a, b) == FloatRound(FloatDiff(a, [sign |-> -b.sign, m |-> b.m, e |-> b.e]))

\* max(a, b) and min(a, b): the first argument unless the second is beyond it.
float_max(a, b) == IF float_lt(a, b) THEN b ELSE a
float_min(a, b) == IF float_lt(b, a) THEN b ELSE a

\* float(n) of an int n, also the float an int operand of a float operation
\* is converted to.
float(n) == float_of(FromInt(n))

\* a / b of two ints, b # 0: the float nearest to the exact quotient.
int_truediv(a, b) == float_of(Rat(a, b))

\* The literals 0.0, 1.0, 2.0, 10.0 and 1.5.
FLOAT_1  == float(1)
FLOAT_2  == float(2)
FLOAT_10 == float(10)
FLOAT_15 == float_of(Rat(3, 2))

\* int(x): the integer part, towards zero.
int_of_float(x) ==
    IF Len(x.m) = 0 THEN 0
    ELSE IF x.e >= 0 THEN x.sign * BigToInt(BigShl(x.m, x.e))
    ELSE IF -x.e >= BigBitLen(x.m) THEN 0
    ELSE x.sign * BigToInt(BigShr(x.m, -x.e))

(***************************************************************************)
(* helpers/analysis_methods.py                                             *)
(***************************************************************************)
\* set(species_list): the elements of the list.
set_of(lst) == {lst[i] : i \in 1..Len(lst)}

\* Counter(species_list): species -> number of occurrences.
Counter(lst) ==
    [sp \in set_of(lst) |-> Cardinality({i \in 1..Len(lst) : lst[i] = sp})]

\* A richness that counts records instead of distinct species.
speciescount_of_cell_records(species) == Len(species)

\* Lines 27-28: len(set(species_list)).
speciescount_of_cell(species) == Cardinality(set_of(species))

calculate_speciescount(area) ==
    [grid \in DOMAIN area |-> speciescount_of_cell(area[grid])]

\* Lines 94-122.  Line 115 is int + int / float and line 120
\* int + int / (float * int): every int operand is converted to a float and
\* every operation rounds.
calculate_chao1_estimator(species_counts) ==
    LET S_obs_ == Cardinality(DOMAIN species_counts)
        F1 == Cardinality({sp \in DOMAIN species_counts : species_counts[sp] = 1})
        F2 == Cardinality({sp \in DOMAIN species_counts : species_counts[sp] = 2})
    IN  IF DOMAIN species_counts = {} THEN FloatZero
        ELSE IF F2 = 0
        THEN IF F1 > 0
             THEN float_add(float(S_obs_), float_div(float(F1 * (F1 - 1)), FLOAT_2))
             ELSE float(S_obs_)
        ELSE float_add(float(S_obs_),
                       float_div(float(F1 * F1), float_mul(FLOAT_2, float(F2))))

\* Lines 148-155: S_est == 0, completeness = S_obs / S_est and
\* max(0.0, 1.0 - completeness).
incompleteness_of_estimate(S_obs_, est) ==
    IF Len(est.m) = 0 THEN FLOAT_1
    ELSE float_max(FloatZero, float_sub(FLOAT_1, float_div(float(S_obs_), est)))

\* An incompleteness that answers 0.0 for a cell without records.
calculate_incompleteness_empty_zero(area_species_list) ==
    IF Len(area_species_list) = 0 THEN FloatZero
    ELSE incompleteness_of_estimate(Cardinality(DOMAIN Counter(area_species_list)),
                                    calculate_chao1_estimator(Counter(area_species_list)))

\* Lines 136-155.
calculate_incompleteness(area_species_list) ==
    IF Len(area_species_list) = 0 THEN FLOAT_1
    ELSE incompleteness_of_estimate(Cardinality(DOMAIN Counter(area_species_list)),
                                    calculate_chao1_estimator(Counter(area_species_list)))

\* list[i] with Python's indexing: 0-based, a negative index counts from the end.
PyIndex(lst, i) == IF i >= 0 THEN lst[i + 1] ELSE lst[Len(lst) + i + 1]

\* Line 183: the index of the point "10 records back".
index_10_back(n_points) == n_points - 11

\* Lines 169, 176, 181: the call reaches the branch that reads that point.
reads_point_10_back(curve) ==
    /\ ~(Len(curve) = 0 \/ Len(curve) < 2)
    /\ ~(Len(curve) < 10)

\* Lines 169-186: a float subtraction, then a float division by the int
\* n_points - 1 or by 10.0.
calculate_accumulation_slope(curve) ==
    IF Len(curve) = 0 \/ Len(curve) < 2 THEN FloatZero
    ELSE LET n_points   == Len(curve)
             last_point == PyIndex(curve, -1)
         IN  IF n_points < 10
             THEN LET first_point == PyIndex(curve, 0)
                  IN  IF n_points = 1 THEN FloatZero
                      ELSE float_div(float_sub(last_point, first_point),
                                     float(n_points - 1))
             ELSE LET point_10_back == PyIndex(curve, index_10_back(n_points))
                  IN  float_div(float_sub(last_point, point_10_back), FLOAT_10)

\* Lines 202-207.
calculate_chao1(area) ==
    [grid \in DOMAIN area |-> calculate_incompleteness(area[grid])]

\* The outcomes of random.shuffle on a copy of lst: every ordering of its records.
Arrangements(lst) ==
    {sh \in [1..Len(lst) -> set_of(lst)] :
        \A sp \in set_of(lst) :
            Cardinality({i \in 1..Len(lst) : sh[i] = sp})
                = Cardinality({i \in 1..Len(lst) : lst[i] = sp})}

\* A curve that counts the records seen instead of the distinct species.
curve_of_shuffle_records(shuffled) ==
    [i \in 1..Len(shuffled) |-> Len(SubSeq(shuffled, 1, i))]

\* Lines 57-62: the running number of distinct species along one shuffled list.
curve_of_shuffle(shuffled) ==
    [i \in 1..Len(shuffled) |-> Cardinality(set_of(SubSeq(shuffled, 1, i)))]

\* Lines 33 and 225: the number of shuffles one curve is averaged over.
n_iterations == 1000

\* The outcomes of the calls of random.shuffle in one call of
\* build_accumulation_curve are written as a sequence of runs: times
\* iterations of the loop of line 51, one after the other, in each of which
\* the shuffle leaves the copy in the order given.
Run(order, times) == [order |-> order, times |-> times]

\* Line 51: the number of iterations the runs stand for.
RECURSIVE Iterations(_)
Iterations(shuffles) ==
    IF Len(shuffles) = 0 THEN 0
    ELSE Head(shuffles).times + Iterations(Tail(shuffles))

\* Lines 72-73: sum(step_values), the curves of a run counted times times.
RECURSIVE SumAt(_, _)
SumAt(shuffles, i) ==
    IF Len(shuffles) = 0 THEN 0
    ELSE Head(shuffles).times * curve_of_shuffle(Head(shuffles).order)[i]
            + SumAt(Tail(shuffles), i)

\* Lines 45-75; Iterations(shuffles) is n_iterations, the length of
\* accumulation_curves and of every step_values.  Line 73 divides two ints.
build_accumulation_curve(lst, shuffles) ==
    IF Len(lst) = 0 THEN <<>>
    ELSE LET n_records == Len(lst)
         IN  IF Iterations(shuffles) = 0 THEN <<>>
             ELSE [i \in 1..n_records |->
                      int_truediv(SumAt(shuffles, i), Iterations(shuffles))]

\* The outcomes of the n iterations that leave curves other than those of
\* done: for each running count the shuffles of lst can give, a run of the
\* iterations that gave it.  Orders with the same running count add the same
\* terms to every sum, so one order stands for the iterations of a run.
RECURSIVE RunsOf(_, _, _)
RunsOf(lst, done, n) ==
    LET curves == {curve_of_shuffle(sh) : sh \in Arrangements(lst)} \ done
    IN  IF n = 0 THEN {<<>>}
        ELSE IF curves = {} THEN {}
        ELSE LET curve  == CHOOSE c \in curves : TRUE
                 orders == {sh \in Arrangements(lst) : curve_of_shuffle(sh) = curve}
             IN  IF Cardinality(curves) = 1
                 THEN {<<Run(order, n)>> : order \in orders}
                 ELSE RunsOf(lst, done \cup {curve}, n)
                          \cup UNION {{<<Run(order, times)>> \o rest :
                                          order \in orders,
                                          rest \in RunsOf(lst, done \cup {curve}, n - times)} :
                                      times \in 1..n}

\* Lines 45-54: every outcome of the shuffles of one call; the empty list
\* returns before the loop.
ShuffleOutcomes(lst) ==
    IF Len(lst) = 0 THEN {<<>>} ELSE RunsOf(lst, {}, n_iterations)

\* Lines 223-225: the outcomes of the shuffles of every cell of the mapping.
RECURSIVE ShufflesOver(_, _)
ShufflesOver(area, cells) ==
    IF cells = {} THEN {<<>>}
    ELSE LET grid == CHOOSE g \in cells : TRUE
         IN  {[g \in cells |-> IF g = grid THEN runs ELSE rest[g]] :
                 runs \in ShuffleOutcomes(area[grid]),
                 rest \in ShufflesOver(area, cells \ {grid})}

\* Lines 222-231; shuffles[grid] are the runs of shuffles of that cell's curve.
calculate_accumulation_curve(area, shuffles) ==
    [grid \in DOMAIN area |->
        calculate_accumulation_slope(build_accumulation_curve(area[grid], shuffles[grid]))]

\* random.shuffle applied to the list itself instead of a copy.
shuffle_in_place(lst, order) == [species_list |-> order, shuffled |-> order]

\* Lines 54-55: shuffled = species_list.copy(); random.shuffle(shuffled).  The
\* two list objects after the statements, order being what the shuffle
\* leaves in the object it is applied to.
copy_and_shuffle(lst, order) == [species_list |-> lst, shuffled |-> order]

\* Lines 51-64: the list object passed as species_list after all iterations.
RECURSIVE species_list_after(_, _)
species_list_after(lst, shuffles) ==
    IF Len(shuffles) = 0 THEN lst
    ELSE IF Head(shuffles).times = 0 THEN species_list_after(lst, Tail(shuffles))
    ELSE species_list_after(copy_and_shuffle(lst, Head(shuffles).order).species_list,
                            Tail(shuffles))

\* Lines 225-229: the mapping passed as area_records after the loop over its
\* cells (build_accumulation_curve returns before its loop for an empty list).
area_records_after(area, shuffles) ==
    [grid \in DOMAIN area |->
        IF Len(area[grid]) = 0 THEN area[grid]
        ELSE species_list_after(area[grid], shuffles[grid])]

\* Line 9.
RARE_SPECIES_MAX_OCCURRENCES == 50

RECURSIVE SumOver(_, _)
SumOver(f, keys) ==
    IF keys = {} THEN 0
    ELSE LET k == CHOOSE x \in keys : TRUE
         IN  f[k] + SumOver(f, keys \ {k})

\* Line 274: unique_species = set(species_list), for every cell.
unique_species_of(area) == [grid \in DOMAIN area |-> set_of(area[grid])]

\* Lines 246-253.
identify_rare_species(area, max_occurrences) ==
    LET unique == unique_species_of(area)
        total_counts ==
            [sp \in UNION {unique[grid] : grid \in DOMAIN area} |->
                SumOver([grid \in DOMAIN area |->
                            Cardinality({i \in 1..Len(area[grid]) : area[grid][i] = sp})],
                        DOMAIN area)]
    IN  {sp \in DOMAIN total_counts : total_counts[sp] <= max_occurrences}

\* Indicators that do not require the two species to share a cell.
find_indicator_species_any_cell(area, rare_species) ==
    LET unique == unique_species_of(area)
        others(rs) ==
            {o \in (UNION {unique[grid] : grid \in DOMAIN area}) \ rare_species : o # rs}
        indicators ==
            [rs \in rare_species |->
                [other \in others(rs) |->
                    Cardinality({grid \in DOMAIN area : other \in unique[grid]})]]
    IN  [rs \in {r \in rare_species : DOMAIN indicators[r] # {}} |-> indicators[rs]]

\* Lines 271-285: rare species -> Counter of its indicator species, the rare
\* species with an empty Counter filtered out.
find_indicator_species(area, rare_species) ==
    LET unique == unique_species_of(area)
        others(rs) ==
            {o \in (UNION {unique[grid] : grid \in DOMAIN area}) \ rare_species :
                /\ o # rs
                /\ \E grid \in DOMAIN area : rs \in unique[grid] /\ o \in unique[grid]}
        indicators ==
            [rs \in rare_species |->
                [other \in others(rs) |->
                    Cardinality({grid \in DOMAIN area :
                                    rs \in unique[grid] /\ other \in unique[grid]})]]
    IN  [rs \in {r \in rare_species : DOMAIN indicators[r] # {}} |-> indicators[rs]]

\* Lines 345-347: cell_score += weight for the indicator species of one
\* absent rare species that are present in the cell.  The weights are ints,
\* so every sum is exact and the order of the additions does not matter.
RECURSIVE add_weights(_, _, _)
add_weights(cell_score, indicator_counts, present) ==
    IF present = {} THEN cell_score
    ELSE LET indicator_sp == CHOOSE sp \in present : TRUE
         IN  add_weights(float_add(cell_score, float(indicator_counts[indicator_sp])),
                         indicator_counts, present \ {indicator_sp})

\* Lines 336-347: cell_score after the loop over the absent rare species.
RECURSIVE score_absent(_, _, _, _)
score_absent(cell_score, indicators, absent, unique_species) ==
    IF absent = {} THEN cell_score
    ELSE LET rs == CHOOSE r \in absent : TRUE
         IN  score_absent(add_weights(cell_score, indicators[rs],
                                      DOMAIN indicators[rs] \cap unique_species),
                          indicators, absent \ {rs}, unique_species)

\* A cell score that ignores how incompletely the cell is sampled.
normalized_score_unweighted(cell_score, n_absent_rare, incompl) ==
    IF n_absent_rare > 0 /\ float_lt(FloatZero, cell_score)
    THEN float_div(cell_score, float(n_absent_rare))
    ELSE FloatZero

\* Lines 350-355.
normalized_score(cell_score, n_absent_rare, incompl) ==
    IF n_absent_rare > 0 /\ float_lt(FloatZero, cell_score)
    THEN float_mul(float_div(cell_score, float(n_absent_rare)),
                   float_add(FLOAT_1, incompl))
    ELSE FloatZero

\* Lines 329-357: the score of one cell before normalization.
cell_potential(lst, indicators) ==
    normalized_score(
        score_absent(FloatZero, indicators,
                     {rs \in DOMAIN indicators : rs \notin set_of(lst)}, set_of(lst)),
        Cardinality({rs \in DOMAIN indicators : rs \notin set_of(lst)}),
        calculate_incompleteness(lst))

\* max(result.values())
RECURSIVE MaxOver(_, _)
MaxOver(f, keys) ==
    LET k == CHOOSE x \in keys : TRUE
    IN  IF keys = {k} THEN f[k] ELSE float_max(f[k], MaxOver(f, keys \ {k}))

\* Lines 361-362.
scores_over(result, max_score) ==
    IF float_lt(FloatZero, max_score)
    THEN [cell \in DOMAIN result |-> float_div(result[cell], max_score)]
    ELSE result

\* A normalization that is left out.
normalize_scores_skipped(result) == result

\* Lines 360-362.
normalize_scores(result) ==
    scores_over(result, IF DOMAIN result # {} THEN MaxOver(result, DOMAIN result)
                        ELSE FloatZero)

\* Lines 309-364.
calculate_rare_species_potential(area) ==
    IF DOMAIN area = {} THEN area
    ELSE LET rare_species == identify_rare_species(area, RARE_SPECIES_MAX_OCCURRENCES)
         IN  IF rare_species = {} THEN [grid \in DOMAIN area |-> FloatZero]
             ELSE LET indicators == find_indicator_species(area, rare_species)
                  IN  IF DOMAIN indicators = {}
                      THEN [grid \in DOMAIN area |-> FloatZero]
                      ELSE normalize_scores(
                               [grid \in DOMAIN area |->
                                   cell_potential(area[grid], indicators)])

(***************************************************************************)
(* helpers/color_utils.py                                                  *)
(***************************************************************************)
HexChars == <<"0", "1", "2", "3", "4", "5", "6", "7",
              "8", "9", "a", "b", "c", "d", "e", "f">>

RECURSIVE HexDigits(_)
HexDigits(n) ==
    IF n < 16 THEN <<HexChars[n + 1]>>
    ELSE Append(HexDigits(n \div 16), HexChars[(n % 16) + 1])

\* f"{n:x}": hexadecimal digits without padding.
format_x(n) == IF n < 0 THEN <<"-">> \o HexDigits(-n) ELSE HexDigits(n)

\* f"{n:02x}": at least two characters, the sign of a negative n included.
format_02x(n) ==
    IF n < 0 THEN <<"-">> \o HexDigits(-n) ELSE ZeroPad(HexDigits(n), 2)

Blue == <<"#", "0", "0", "0", "0", "f", "f">>

\* The literals 0.33, 0.34 and 0.67 of lines 25-38, and 255 as a float.
FLOAT_033 == float_of(Rat(33, 100))
FLOAT_034 == float_of(Rat(34, 100))
FLOAT_067 == float_of(Rat(67, 100))
FLOAT_255 == float(255)

\* Lines 29, 33, 35, 38: int(255 * t).
ramp_channel(t) == int_of_float(float_mul(FLOAT_255, t))

\* Lines 33-35, t being (normalized - 0.33) / 0.34.
ramp_cyan_to_yellow(t) == <<ramp_channel(t), 255, ramp_channel(float_sub(FLOAT_1, t))>>

\* Lines 25-40: r, g and b.
ramp_rgb(normalized) ==
    IF float_lt(normalized, FLOAT_033)
    THEN <<0, ramp_channel(float_div(normalized, FLOAT_033)), 255>>
    ELSE IF float_lt(normalized, FLOAT_067)
    THEN ramp_cyan_to_yellow(float_div(float_sub(normalized, FLOAT_033), FLOAT_034))
    ELSE <<255,
           ramp_channel(float_sub(FLOAT_1,
                            float_div(float_sub(normalized, FLOAT_067), FLOAT_033))),
           0>>

\* Line 42.
ramp_hex(rgb) ==
    <<"#">> \o format_02x(rgb[1]) \o format_02x(rgb[2]) \o format_02x(rgb[3])

\* Lines 19-42.  The arguments are floats; the ints of the species count are
\* passed as the floats of the same value, which subtract and divide to the
\* same floats.
hex_color_ramp(value, min_val, max_val) ==
    IF max_val = min_val THEN Blue
    ELSE ramp_hex(ramp_rgb(float_div(float_sub(value, min_val),
                                     float_sub(max_val, min_val))))

\* min(values) of a non-empty dictionary.
RECURSIVE MinOver(_, _)
MinOver(f, keys) ==
    LET k == CHOOSE x \in keys : TRUE
    IN  IF keys = {k} THEN f[k] ELSE float_min(f[k], MinOver(f, keys \ {k}))

\* Lines 66-72.
colors_between(values, min_val, max_val) ==
    [cell \in DOMAIN values |->
        [color |-> hex_color_ramp(values[cell], min_val, max_val),
         value |-> values[cell]]]

\* A colouring whose ramp starts at 0 instead of the smallest value.
add_colors_from_zero(values) ==
    IF DOMAIN values = {} THEN values
    ELSE colors_between(values, FloatZero, MaxOver(values, DOMAIN values))

\* Lines 57-72.
add_colors_to_values(values) ==
    IF DOMAIN values = {} THEN values
    ELSE colors_between(values, MinOver(values, DOMAIN values),
                        MaxOver(values, DOMAIN values))

(***************************************************************************)
(* helpers/calculate_completeness.py                                       *)
(***************************************************************************)
\* Lines 140-168: this module's own copy of the estimator.
completeness_chao1_estimator(species_counts) ==
    LET S_obs_ == Cardinality(DOMAIN species_counts)
        F1 == Cardinality({sp \in DOMAIN species_counts : species_counts[sp] = 1})
        F2 == Cardinality({sp \in DOMAIN species_counts : species_counts[sp] = 2})
    IN  IF DOMAIN species_counts = {} THEN FloatZero
        ELSE IF F2 = 0
        THEN IF F1 > 0
             THEN float_add(float(S_obs_), float_div(float(F1 * (F1 - 1)), FLOAT_2))
             ELSE float(S_obs_)
        ELSE float_add(float(S_obs_),
                       float_div(float(F1 * F1), float_mul(FLOAT_2, float(F2))))

\* Lines 193-201: S_est == 0, completeness = S_obs / S_est and
\* min(completeness, 1.5).
completeness_of_estimate(S_obs_, est) ==
    IF Len(est.m) = 0 THEN FloatZero
    ELSE float_min(float_div(float(S_obs_), est), FLOAT_15)

\* Variant: the ratio taken the other way round, estimated over observed.
calculate_completeness_inverted(area_species_list) ==
    IF Len(area_species_list) = 0 THEN FloatZero
    ELSE float_min(float_div(completeness_chao1_estimator(Counter(area_species_list)),
                             float(Cardinality(DOMAIN Counter(area_species_list)))),
                   FLOAT_15)

\* Lines 181-201.
calculate_completeness(area_species_list) ==
    IF Len(area_species_list) = 0 THEN FloatZero
    ELSE completeness_of_estimate(Cardinality(DOMAIN Counter(area_species_list)),
                                  completeness_chao1_estimator(Counter(area_species_list)))

(***************************************************************************)
(* helpers/analysis_methods.py: the method registry.                       *)
(***************************************************************************)
\* Lines 368-373: the keys of METHODS.
METHODS == {"speciescount", "chao1", "accumulation_curve", "rare_species_potential"}

\* A lookup that falls back to the species count for an unknown name.
get_method_fallback(method_name) ==
    [tag |-> "func", val |-> IF method_name \in METHODS THEN method_name ELSE "speciescount"]

\* Lines 389-395.
get_method(method_name) ==
    IF method_name \notin METHODS THEN Raise("ValueError")
    ELSE [tag |-> "func", val |-> method_name]

\* METHODS[name](area_records); the values are floats, the species count an
\* int that compares, subtracts and divides as the float of the same value.
analysis_func(name, area, shuffles) ==
    CASE name = "speciescount" ->
            [grid \in DOMAIN area |-> float(calculate_speciescount(area)[grid])]
      [] name = "chao1" -> calculate_chao1(area)
      [] name = "accumulation_curve" -> calculate_accumulation_curve(area, shuffles)
      [] name = "rare_species_potential" -> calculate_rare_species_potential(area)

(***************************************************************************)
(* helpers/pipeline.py                                                     *)
(* process_data as one step.  file is what opening and reading the input   *)
(* file gives ("ok", "missing", "unreadable"), loaded the records          *)
(* load_occurrences returns when it is "ok", rendered what                 *)
(* create_finland_map returns.  The result holds the value returned or the *)
(* exception raised, the calls made in order, and the local variables that *)
(* were assigned.                                                          *)
(***************************************************************************)
Returned == [tag |-> "tuple", val |-> <<"json_path", "map_path">>]

PipelineResult(out, calls, area, values, colored) ==
    [outcome |-> out, effects |-> calls, area_records |-> area,
     values_dict |-> values, data_with_colors |-> colored]

\* Lines 24-56 of data_loader.py.
load_occurrences(file, loaded) ==
    CASE file = "ok"      -> [tag |-> "list", val |-> loaded]
      [] file = "missing" -> Raise("FileNotFoundError")
      [] OTHER            -> Raise("RuntimeError")

\* An output stage that renders the map before it writes the JSON file.
process_data_map_first(area, values, colored, rendered) ==
    LET calls == <<"mkdir", "load_occurrences", "group_by_grid_cell", "get_method",
                   "analysis_func", "add_colors_to_values", "create_finland_map">>
    IN  IF ~rendered
        THEN PipelineResult(Raise("RuntimeError"), calls, area, Dict(values), Dict(colored))
        ELSE PipelineResult(Returned, Append(calls, "json.dump"),
                            area, Dict(values), Dict(colored))

\* Lines 114-133: colours, JSON file, map.
process_data_output(area, values, colored, rendered) ==
    LET calls == <<"mkdir", "load_occurrences", "group_by_grid_cell", "get_method",
                   "analysis_func", "add_colors_to_values", "json.dump",
                   "create_finland_map">>
    IN  IF ~rendered
        THEN PipelineResult(Raise("RuntimeError"), calls, area, Dict(values), Dict(colored))
        ELSE PipelineResult(Returned, calls, area, Dict(values), Dict(colored))

\* Lines 109-116: values_dict = analysis_func(area_records) and what follows.
process_data_values(area, values, rendered) ==
    IF DOMAIN values = {}
    THEN PipelineResult(Raise("ValueError"),
                        <<"mkdir", "load_occurrences", "group_by_grid_cell",
                          "get_method", "analysis_func">>,
                        area, Dict(values), Unset)
    ELSE process_data_output(area, values, add_colors_to_values(values), rendered)

\* Lines 108-109: analysis_func = get_method(method) and what follows.
process_data_method(area, func, rendered, shuffles) ==
    IF func.tag = "raise"
    THEN PipelineResult(func,
                        <<"mkdir", "load_occurrences", "group_by_grid_cell", "get_method">>,
                        area, Unset, Unset)
    ELSE process_data_values(area, analysis_func(func.val, area.val, shuffles), rendered)

\* Lines 100-108: area_records = group_by_grid_cell(...) and what follows.
process_data_grouped(area, method_name, rendered, shuffles) ==
    IF DOMAIN area.val = {}
    THEN PipelineResult(Raise("ValueError"),
                        <<"mkdir", "load_occurrences", "group_by_grid_cell">>,
                        area, Unset, Unset)
    ELSE process_data_method(area, get_method(method_name), rendered, shuffles)

\* Lines 95-100: records = load_occurrences(input_file) and what follows.
process_data_loaded(recs, method_name, resolution, rendered, shuffles) ==
    IF recs.tag = "raise"
    THEN PipelineResult(recs, <<"mkdir", "load_occurrences">>, Unset, Unset, Unset)
    ELSE process_data_grouped(group_by_grid_cell(recs.val, resolution),
                              method_name, rendered, shuffles)

\* Lines 74-133.
process_data(file, loaded, method_name, resolution, rendered, shuffles) ==
    IF resolution \notin ValidResolutions
    THEN PipelineResult(Raise("ValueError"), <<>>, Unset, Unset, Unset)
    ELSE process_data_loaded(load_occurrences(file, loaded),
                             method_name, resolution, rendered, shuffles)

(***************************************************************************)
(* generate_map.py: validate_config, run_config and the run loop of main.  *)
(* A configuration is a record of input_file, method and resolution_km.    *)
(* Its input_file is "ok", "missing" or "unreadable" as in load_occurrences*)
(* (a path string), or "null": a value of the YAML file that is not a      *)
(* string, which Path() refuses.                                           *)
(***************************************************************************)
Bool(b) == [tag |-> "bool", val |-> b]

\* Line 81: Path(config['input_file']).
Path(file) == IF file = "null" THEN Raise("TypeError") ELSE [tag |-> "path", val |-> file]

\* Line 82: input_file.exists().
exists(path) == path.val # "missing"

\* Line 86.
valid_methods == {"speciescount", "chao1", "accumulation_curve"}

\* Line 91.
valid_resolutions == {1, 10, 100}

Validation(is_valid, error) == [tag |-> "tuple", val |-> <<is_valid, error>>]

\* Lines 81-95: the tuple (is_valid, error), or the exception raised.
validate_config(config) ==
    LET file == Path(config.input_file)
    IN  IF file.tag = "raise" THEN file
        ELSE IF ~exists(file) THEN Validation(FALSE, "Input file not found")
        ELSE IF config.method \notin valid_methods THEN Validation(FALSE, "Invalid method")
        ELSE IF config.resolution_km \notin valid_resolutions
        THEN Validation(FALSE, "Invalid resolution")
        ELSE Validation(TRUE, "None")

\* What one call of run_config did: the value returned (or the exception that
\* left it), the message printed, whether process_data was called and the
\* steps process_data performed.
RunReport(name, ret, msg, was_called, steps) ==
    [name |-> name, returned |-> ret, printed |-> msg, called |-> was_called,
     effects |-> steps]

\* Lines 150-168: the try block around process_data.
run_config_try(config_name, run) ==
    IF run.outcome.tag = "raise"
    THEN RunReport(config_name, Bool(FALSE), "Error running configuration", TRUE,
                   run.effects)
    ELSE RunReport(config_name, Bool(TRUE), "Successfully completed", TRUE, run.effects)

\* Lines 136-168; loaded, rendered and shuffles are what the input file holds,
\* what create_finland_map returns and the outcomes of random.shuffle.
run_config(config_name, loaded_configs, loaded, rendered, shuffles) ==
    IF config_name \notin DOMAIN loaded_configs
    THEN RunReport(config_name, Bool(FALSE), "not found", FALSE, <<>>)
    ELSE LET config == loaded_configs[config_name]
             validation == validate_config(config)
         IN  IF validation.tag = "raise"
             THEN RunReport(config_name, validation, "", FALSE, <<>>)
             ELSE IF ~validation.val[1]
             THEN RunReport(config_name, Bool(FALSE), "is invalid", FALSE, <<>>)
             ELSE run_config_try(config_name,
                                 process_data(config.input_file, loaded, config.method,
                                              config.resolution_km, rendered, shuffles))

(***************************************************************************)
(* Inputs of convert_to_resolution.                                        *)
(***************************************************************************)
\* Key strings used below.
K_6789_3458 == <<"6", "7", "8", "9", ":", "3", "4", "5", "8">>
K_67_34     == <<"6", "7", ":", "3", "4">>
K_670_345   == <<"6", "7", "0", ":", "3", "4", "5">>
K_675_345   == <<"6", "7", "5", ":", "3", "4", "5">>
K_m95_00    == <<"-", "9", "5", ":", "0", "0">>

Resolutions == ValidResolutions \cup {25}      \* 25: a resolution that is not offered

KeyDigits == {"0", "4", "5", "9"}
DigitStrings == UNION {[1..k -> KeyDigits] : k \in 1..MaxDigits}

SideComponents == {<<"6", "7", "8", "9">>, <<"3", "4">>, <<"5">>}

ExampleKeys == {<<"6", "7", "8", "9", ":", "3", "4", "5", "8">>,
                <<"6", "7", "8", "3", ":", "3", "4", "5", "8">>,
                <<"6", "7", ":", "3", "4">>,
                <<"-", "9", "5", ":", "0", "0">>,
                <<"1", "_", "2", ":", "+", "7">>,
                <<"6", "7", "\t", ":", "3", "4">>,
                <<"\f", "6", "7", ":", "3", "4", "\r">>,
                <<"6", "7", "8", "9", "\n", ":", "3", "4", "5", "8">>,
                <<"6", "\t", "7", ":", "3", "4">>,
                <<"6", "7", " ", ":", "3", "4">>,
                <<"", "5", ":", "3">>,
                <<"", "6", "7", ":", "3", "4">>,
                <<"6", " ", "7", ":", "3", "4">>}

WellFormedKeys ==
    {n \o <<":">> \o e : n \in DigitStrings, e \in SideComponents}
        \cup {n \o <<":">> \o e : n \in SideComponents, e \in DigitStrings}

RawAlphabet == {"5", ":", "x", "-", " "}
RawKeys == UNION {[1..k -> RawAlphabet] : k \in 0..MaxRawLen}

Keys == WellFormedKeys \cup RawKeys \cup ExampleKeys

IdleGrid ==
    /\ grid_cell = <<>>
    /\ target_resolution_km = 0
    /\ converted = Unset
    /\ reconverted = Unset

IdleGroup ==
    /\ records = <<>>
    /\ resolution_km = 0

IdleCell ==
    /\ species_list = <<>>
    /\ S_est = Unset
    /\ completeness = Unset
    /\ incompleteness = Unset

IdleBuild ==
    /\ n_iterations_arg = 0
    /\ averaged_curve = Unset

IdleCurve ==
    /\ accumulation_curve = <<>>
    /\ slope = Unset
    /\ IdleBuild

IdleArea ==
    /\ area_records = Unset
    /\ values_dict = Unset

IdlePipe ==
    /\ method = ""
    /\ data_with_colors = Unset
    /\ input_file = ""
    /\ map_ok = FALSE
    /\ outcome = Unset
    /\ effects = <<>>

IdleCli ==
    /\ configs = <<>>
    /\ config_names = <<>>
    /\ reports = <<>>
    /\ success_count = 0
    /\ exit_status = Unset

InitGrid ==
    /\ grid_cell \in Keys
    /\ target_resolution_km \in Resolutions
    /\ converted = Unset
    /\ reconverted = Unset
    /\ IdleGroup /\ IdleCell /\ IdleCurve /\ IdleArea /\ IdlePipe /\ IdleCli

\* One call convert_to_resolution(grid_cell, target_resolution_km).
Convert ==
    /\ converted = Unset
    /\ converted' = convert_to_resolution(grid_cell, target_resolution_km)
    /\ UNCHANGED <<grid_cell, target_resolution_km, reconverted>>
    /\ UNCHANGED <<groupVars, cellVars, curveVars, area_records, values_dict, pipeVars, cliVars>>

\* The returned key is converted again at the same resolution.
Reconvert ==
    /\ converted.tag = "str"
    /\ reconverted = Unset
    /\ reconverted' = convert_to_resolution(converted.val, target_resolution_km)
    /\ UNCHANGED <<grid_cell, target_resolution_km, converted>>
    /\ UNCHANGED <<groupVars, cellVars, curveVars, area_records, values_dict, pipeVars, cliVars>>

NextGrid == Convert \/ Reconvert

SpecGrid == InitGrid /\ [][NextGrid]_vars

(***************************************************************************)
(* Inputs of group_by_grid_cell: records as load_occurrences returns them  *)
(* (both fields non-empty strings).                                        *)
(***************************************************************************)
K_6783_3458 == <<"6", "7", "8", "3", ":", "3", "4", "5", "8">>
K_6712_3499 == <<"6", "7", "1", "2", ":", "3", "4", "9", "9">>
K_5_x       == <<"5", ":", "x">>
K_12        == <<"1", "2">>
K_67nbsp_34 == <<"6", "7", " ", ":", "3", "4">>

RecordKeys == {<<"6", "7", "8", "9", ":", "3", "4", "5", "8">>,
               K_6783_3458, K_6712_3499, K_5_x, K_12, K_67nbsp_34}

SpeciesNames == {"A", "B"}

Records == [gridCellYKJ : RecordKeys, scientificName : SpeciesNames]

RecordSeqs == UNION {[1..n -> Records] : n \in 0..MaxRecords}

InitGroup ==
    /\ records \in RecordSeqs
    /\ resolution_km \in Resolutions
    /\ area_records = Unset
    /\ values_dict = Unset
    /\ IdleGrid /\ IdleCell /\ IdleCurve /\ IdlePipe /\ IdleCli

\* One call group_by_grid_cell(records, resolution_km).
Group ==
    /\ area_records.tag = "unset"
    /\ area_records' = group_by_grid_cell(records, resolution_km)
    /\ UNCHANGED <<gridVars, groupVars, cellVars, curveVars, values_dict, pipeVars, cliVars>>

NextGroup == Group

SpecGroup == InitGroup /\ [][NextGroup]_vars

(***************************************************************************)
(* Inputs of the per-cell functions: one cell's species list.              *)
(***************************************************************************)
CellSpecies == {"A", "B", "C", "D"}

\* Longer lists whose estimate is rounded twice: three doubletons with one
\* singleton (4 + 1 / 6.0) and with five singletons (8 + 25 / 6.0).
ExampleLists ==
    {<<"A", "B", "B", "C", "C", "D", "D">>,
     <<"A", "B", "C", "D", "E", "F", "F", "G", "G", "H", "H">>}

SpeciesLists == UNION {[1..n -> CellSpecies] : n \in 0..MaxListLen} \cup ExampleLists

InitCell ==
    /\ species_list \in SpeciesLists
    /\ S_est = Unset
    /\ completeness = Unset
    /\ incompleteness = Unset
    /\ IdleGrid /\ IdleGroup /\ IdleCurve /\ IdleArea /\ IdlePipe /\ IdleCli

\* calculate_chao1_estimator(Counter(species_list)).
Chao1 ==
    /\ S_est.tag = "unset"
    /\ S_est' = Float(calculate_chao1_estimator(Counter(species_list)))
    /\ UNCHANGED <<species_list, completeness, incompleteness>>
    /\ UNCHANGED <<gridVars, groupVars, curveVars, area_records, values_dict, pipeVars, cliVars>>

\* calculate_completeness(species_list).
Completeness ==
    /\ completeness.tag = "unset"
    /\ completeness' = Float(calculate_completeness(species_list))
    /\ UNCHANGED <<species_list, S_est, incompleteness>>
    /\ UNCHANGED <<gridVars, groupVars, curveVars, area_records, values_dict, pipeVars, cliVars>>

\* calculate_incompleteness(species_list).
Incompleteness ==
    /\ incompleteness.tag = "unset"
    /\ incompleteness' = Float(calculate_incompleteness(species_list))
    /\ UNCHANGED <<species_list, S_est, completeness>>
    /\ UNCHANGED <<gridVars, groupVars, curveVars, area_records, values_dict, pipeVars, cliVars>>

NextCell == Chao1 \/ Completeness \/ Incompleteness

SpecCell == InitCell /\ [][NextCell]_vars

(***************************************************************************)
(* Inputs of calculate_accumulation_slope: curves of running counts of     *)
(* distinct species (first value 1, each step adds 0 or 1).                *)
(***************************************************************************)
RECURSIVE CountsOf(_)
CountsOf(steps) ==
    IF Len(steps) = 0 THEN <<>>
    ELSE LET before == CountsOf(SubSeq(steps, 1, Len(steps) - 1))
         IN  IF Len(before) = 0 THEN <<1>>
             ELSE Append(before, before[Len(before)] + steps[Len(steps)])

\* The curve when every shuffle gives the same running counts.
CurveOf(steps) == [i \in 1..Len(steps) |-> float(CountsOf(steps)[i])]

\* Curves of a list with one record of a second species: the first point 1,
\* the second an average in thousandths, the points after it 2.
Thousandths == {0, 456, 544, 1000}

AveragedCurves ==
    {[i \in 1..n |-> IF i = 1 THEN float(1)
                     ELSE IF i = 2 THEN int_truediv(1000 + k, 1000)
                     ELSE float(2)] : n \in 2..MaxCurveLen, k \in Thousandths}

StepSeqs == UNION {[1..n -> {0, 1}] : n \in 0..MaxCurveLen}

InitCurve ==
    /\ accumulation_curve \in {CurveOf(st) : st \in StepSeqs} \cup AveragedCurves
    /\ slope = Unset
    /\ IdleBuild
    /\ IdleGrid /\ IdleGroup /\ IdleCell /\ IdleArea /\ IdlePipe /\ IdleCli

\* calculate_accumulation_slope(accumulation_curve).
Slope ==
    /\ slope.tag = "unset"
    /\ slope' = Float(calculate_accumulation_slope(accumulation_curve))
    /\ UNCHANGED <<accumulation_curve, n_iterations_arg, averaged_curve>>
    /\ UNCHANGED <<gridVars, groupVars, cellVars, area_records, values_dict, pipeVars, cliVars>>

NextCurve == Slope

SpecCurve == InitCurve /\ [][NextCurve]_vars

(***************************************************************************)
(* Inputs of the estimators: AreaRecords mappings, cells with empty lists  *)
(* included.                                                               *)
(***************************************************************************)
AreaCells == {<<"6", "7", ":", "3", "4">>, <<"6", "7", ":", "3", "5">>}

AreaSpecies == {"A", "B", "C"}

CellLists == UNION {[1..n -> AreaSpecies] : n \in 0..MaxCellLen}

AreaMappings == UNION {[cells -> CellLists] : cells \in SUBSET AreaCells}

InitArea ==
    /\ area_records \in {Dict(m) : m \in AreaMappings}
    /\ values_dict = Unset
    /\ IdleGrid /\ IdleGroup /\ IdleCell /\ IdleCurve /\ IdlePipe /\ IdleCli

\* calculate_speciescount(area_records).
SpeciesCount ==
    /\ values_dict.tag = "unset"
    /\ values_dict' = Dict(calculate_speciescount(area_records.val))
    /\ method' = "speciescount"
    /\ UNCHANGED <<area_records, data_with_colors, input_file, map_ok, outcome, effects>>
    /\ UNCHANGED <<gridVars, groupVars, cellVars, curveVars, cliVars>>

NextArea == SpeciesCount

SpecArea == InitArea /\ [][NextArea]_vars

(***************************************************************************)
(* The four analysis methods of the METHODS registry over one mapping.     *)
(* CommonBlock makes species "C" exceed RARE_SPECIES_MAX_OCCURRENCES.      *)
(***************************************************************************)
MaxEstLen == 2

CommonBlock == [i \in 1..(RARE_SPECIES_MAX_OCCURRENCES + 1) |-> "C"]

EstSpecies == {"A", "C"}

EstLists == UNION {[1..n -> EstSpecies] : n \in 0..MaxEstLen} \cup {CommonBlock}

EstMappings == UNION {[cells -> EstLists] : cells \in SUBSET AreaCells}

InitEst ==
    /\ area_records \in {Dict(m) : m \in EstMappings}
    /\ values_dict = Unset
    /\ IdleGrid /\ IdleGroup /\ IdleCell /\ IdleCurve /\ IdlePipe /\ IdleCli

\* calculate_chao1(area_records).
CalculateChao1 ==
    /\ values_dict.tag = "unset"
    /\ values_dict' = Dict(calculate_chao1(area_records.val))
    /\ method' = "chao1"
    /\ UNCHANGED <<area_records, data_with_colors, input_file, map_ok, outcome, effects>>
    /\ UNCHANGED <<gridVars, groupVars, cellVars, curveVars, cliVars>>

\* calculate_accumulation_curve(area_records), over the outcomes of random.shuffle.
CalculateAccumulationCurve ==
    /\ values_dict.tag = "unset"
    /\ \E shuffles \in ShufflesOver(area_records.val, DOMAIN area_records.val) :
          /\ values_dict' = Dict(calculate_accumulation_curve(area_records.val, shuffles))
          /\ area_records' = Dict(area_records_after(area_records.val, shuffles))
    /\ method' = "accumulation_curve"
    /\ UNCHANGED <<data_with_colors, input_file, map_ok, outcome, effects>>
    /\ UNCHANGED <<gridVars, groupVars, cellVars, curveVars, cliVars>>

\* calculate_rare_species_potential(area_records).
CalculateRareSpeciesPotential ==
    /\ values_dict.tag = "unset"
    /\ values_dict' = Dict(calculate_rare_species_potential(area_records.val))
    /\ method' = "rare_species_potential"
    /\ UNCHANGED <<area_records, data_with_colors, input_file, map_ok, outcome, effects>>
    /\ UNCHANGED <<gridVars, groupVars, cellVars, curveVars, cliVars>>

NextEst ==
    \/ SpeciesCount
    \/ CalculateChao1
    \/ CalculateAccumulationCurve
    \/ CalculateRareSpeciesPotential

SpecEst == InitEst /\ [][NextEst]_vars

(***************************************************************************)
(* Inputs of calculate_rare_species_potential: up to three cells, the      *)
(* species "A" and "B" with few records, and the species "C" and "D" with  *)
(* more than RARE_SPECIES_MAX_OCCURRENCES records in a cell.               *)
(***************************************************************************)
MaxRareLen == 1

K_68_35 == <<"6", "8", ":", "3", "5">>

RareCells == AreaCells \cup {K_68_35}

RareNames == {"A", "B"}

CommonBlockD == [i \in 1..(RARE_SPECIES_MAX_OCCURRENCES + 1) |-> "D"]

CommonParts == {<<>>, <<"C">>, CommonBlock, CommonBlock \o CommonBlockD}

RareLists ==
    {r \o c : r \in UNION {[1..n -> RareNames] : n \in 0..MaxRareLen},
              c \in CommonParts}

\* The cells of AreaCells hold any list of RareLists; the cell K_68_35, when
\* it is there, holds records of the common species only.
RareMappings ==
    {m \in UNION {[cells -> RareLists] : cells \in SUBSET RareCells} :
        K_68_35 \in DOMAIN m => m[K_68_35] \in CommonParts}

InitRare ==
    /\ area_records \in {Dict(m) : m \in RareMappings}
    /\ values_dict = Unset
    /\ IdleGrid /\ IdleGroup /\ IdleCell /\ IdleCurve /\ IdlePipe /\ IdleCli

NextRare == CalculateRareSpeciesPotential

SpecRare == InitRare /\ [][NextRare]_vars

(***************************************************************************)
(* Inputs of the accumulation curve of one cell: short lists over two      *)
(* species, the orderings of A, A, B (whose shuffles give two different    *)
(* running counts), and lists of one species repeated up to MaxUniformLen  *)
(* times.                                                                  *)
(***************************************************************************)
MaxAccumLen == 2
MaxUniformLen == 12

AccumLists ==
    UNION {[1..n -> {"A", "B"}] : n \in 0..MaxAccumLen}
        \cup Arrangements(<<"A", "A", "B">>)
        \cup {[i \in 1..n |-> "A"] : n \in 1..MaxUniformLen}

InitAccum ==
    /\ species_list \in AccumLists
    /\ accumulation_curve = <<>>
    /\ slope = Unset
    /\ IdleBuild
    /\ S_est = Unset /\ completeness = Unset /\ incompleteness = Unset
    /\ IdleGrid /\ IdleGroup /\ IdleArea /\ IdlePipe /\ IdleCli

\* curve = build_accumulation_curve(species_list);
\* slope = calculate_accumulation_slope(curve), over the outcomes of random.shuffle.
AccumulationSlope ==
    /\ slope.tag = "unset"
    /\ \E shuffles \in ShuffleOutcomes(species_list) :
          LET curve == build_accumulation_curve(species_list, shuffles)
          IN  /\ accumulation_curve' = curve
              /\ slope' = Float(calculate_accumulation_slope(curve))
              /\ species_list' = species_list_after(species_list, shuffles)
    /\ UNCHANGED <<S_est, completeness, incompleteness, n_iterations_arg, averaged_curve>>
    /\ UNCHANGED <<gridVars, groupVars, area_records, values_dict, pipeVars, cliVars>>

NextAccum == AccumulationSlope

SpecAccum == InitAccum /\ [][NextAccum]_vars

(***************************************************************************)
(* Inputs of build_accumulation_curve(species_list, n_iterations): the     *)
(* lists above with the default 1000 iterations and with 1..MaxIterations  *)
(* iterations, and lists of three species with a repeated one (whose       *)
(* shuffles give three running counts, 1 1 2 3, 1 2 2 3 and 1 2 3 3) with  *)
(* 1..MaxIterations iterations.  Every outcome of the shuffles is drawn.   *)
(***************************************************************************)
MaxIterations == 3

ThreeSpeciesLists == {<<"A", "A", "B", "C">>, <<"B", "A", "C", "A">>}

InitBuild ==
    /\ \/ /\ species_list \in AccumLists
          /\ n_iterations_arg \in (1..MaxIterations) \cup {n_iterations}
       \/ /\ species_list \in ThreeSpeciesLists
          /\ n_iterations_arg \in 1..MaxIterations
    /\ averaged_curve = Unset
    /\ accumulation_curve = <<>>
    /\ slope = Unset
    /\ S_est = Unset /\ completeness = Unset /\ incompleteness = Unset
    /\ IdleGrid /\ IdleGroup /\ IdleArea /\ IdlePipe /\ IdleCli

\* build_accumulation_curve(species_list, n_iterations_arg), over the
\* outcomes of random.shuffle; the empty list returns before the loop.
BuildAccumulationCurve ==
    /\ averaged_curve.tag = "unset"
    /\ \E shuffles \in IF Len(species_list) = 0 THEN {<<>>}
                       ELSE RunsOf(species_list, {}, n_iterations_arg) :
          /\ averaged_curve' = [tag |-> "list",
                                val |-> build_accumulation_curve(species_list, shuffles)]
          /\ species_list' = species_list_after(species_list, shuffles)
    /\ UNCHANGED <<S_est, completeness, incompleteness>>
    /\ UNCHANGED <<accumulation_curve, slope, n_iterations_arg>>
    /\ UNCHANGED <<gridVars, groupVars, area_records, values_dict, pipeVars, cliVars>>

NextBuild == BuildAccumulationCurve

SpecBuild == InitBuild /\ [][NextBuild]_vars

(***************************************************************************)
(* Inputs of add_colors_to_values: score maps over up to three cells with  *)
(* the values 0.0 .. MaxScore.                                             *)
(***************************************************************************)
MaxScore == 6

\* Integer scores (species counts) and some fractions as the estimators
\* return them; with 1/4 between 0 and 5/7 the float product 255 * x falls
\* just below the integer 15.
Scores == {float(n) : n \in 0..MaxScore}
              \cup {float_of(Rat(1, 4)), float_of(Rat(5, 7)), float_of(Rat(1, 10)),
                    float_of(Rat(2, 11))}

ScoreMaps == UNION {[cells -> Scores] : cells \in SUBSET RareCells}

InitColor ==
    /\ values_dict \in {Dict(m) : m \in ScoreMaps}
    /\ area_records = Unset
    /\ IdleGrid /\ IdleGroup /\ IdleCell /\ IdleCurve /\ IdlePipe /\ IdleCli

\* add_colors_to_values(values_dict).
AddColors ==
    /\ data_with_colors.tag = "unset"
    /\ data_with_colors' = Dict(add_colors_to_values(values_dict.val))
    /\ UNCHANGED <<area_records, values_dict, method, input_file, map_ok, outcome, effects>>
    /\ UNCHANGED <<gridVars, groupVars, cellVars, curveVars, cliVars>>

NextColor == AddColors

SpecColor == InitColor /\ [][NextColor]_vars

(***************************************************************************)
(* Inputs of process_data: the state of the input file and its records,    *)
(* the method name, the resolution and the outcome of the map renderer.    *)
(***************************************************************************)
MaxPipeRecords == 2

PipeRecords ==
    [gridCellYKJ : {K_6783_3458, K_6712_3499, K_5_x}, scientificName : SpeciesNames]

PipeRecordSeqs == UNION {[1..n -> PipeRecords] : n \in 0..MaxPipeRecords}

MethodNames == METHODS \cup {"bogus"}

InitPipe ==
    /\ input_file \in {"ok", "missing", "unreadable"}
    /\ records \in (IF input_file = "ok" THEN PipeRecordSeqs ELSE {<<>>})
    /\ method \in MethodNames
    /\ resolution_km \in Resolutions
    /\ map_ok \in BOOLEAN
    /\ data_with_colors = Unset
    /\ outcome = Unset
    /\ effects = <<>>
    /\ IdleGrid /\ IdleCell /\ IdleCurve /\ IdleArea /\ IdleCli

\* The shuffle outcomes calculate_accumulation_curve can draw for the cells of
\* the mapping that group_by_grid_cell(recs, resolution) returns.
ShufflesFor(recs, resolution) ==
    LET area == group_by_grid_cell(recs, resolution).val
    IN  ShufflesOver(area, DOMAIN area)

\* process_data(input_file, method, resolution_km).
ProcessData ==
    /\ outcome.tag = "unset"
    /\ \E shuffles \in ShufflesFor(records, resolution_km) :
       \E run \in {process_data(input_file, records, method, resolution_km,
                                map_ok, shuffles)} :
          /\ outcome' = run.outcome
          /\ effects' = run.effects
          /\ area_records' = run.area_records
          /\ values_dict' = run.values_dict
          /\ data_with_colors' = run.data_with_colors
    /\ UNCHANGED <<records, resolution_km, method, input_file, map_ok>>
    /\ UNCHANGED <<gridVars, cellVars, curveVars, cliVars>>

NextPipe == ProcessData

SpecPipe == InitPipe /\ [][NextPipe]_vars

(***************************************************************************)
(* Two conversions in a row at two resolutions: the key is converted to    *)
(* target_resolution_km and the result is converted to resolution_km.      *)
(***************************************************************************)
FourDigitComponents == [1..digits_needed(1) -> KeyDigits]

FourDigitKeys ==
    {n \o <<":">> \o e : n \in FourDigitComponents,
                         e \in {<<"3", "4", "5", "8">>, <<"0", "0", "5", "0">>,
                                <<"9", "9", "9", "9">>}}

InitCoarsen ==
    /\ grid_cell \in FourDigitKeys
    /\ target_resolution_km \in ValidResolutions
    /\ resolution_km \in ValidResolutions
    /\ converted = Unset
    /\ reconverted = Unset
    /\ records = <<>>
    /\ IdleCell /\ IdleCurve /\ IdleArea /\ IdlePipe /\ IdleCli

\* convert_to_resolution(converted, resolution_km): the second conversion.
Coarsen ==
    /\ converted.tag = "str"
    /\ reconverted = Unset
    /\ reconverted' = convert_to_resolution(converted.val, resolution_km)
    /\ UNCHANGED <<grid_cell, target_resolution_km, converted>>
    /\ UNCHANGED <<groupVars, cellVars, curveVars, area_records, values_dict, pipeVars, cliVars>>

NextCoarsen == Convert \/ Coarsen

SpecCoarsen == InitCoarsen /\ [][NextCoarsen]_vars

(***************************************************************************)
(* The run loop of generate_map (lines 233-247), from the state in which   *)
(* the configurations are loaded and the names to run are determined.      *)
(***************************************************************************)
MaxConfigNames == 2       \* number of configuration names requested

Configs == [input_file : {"ok", "missing", "unreadable", "null"},
            method : MethodNames, resolution_km : Resolutions]

\* Configuration "b" is one of three: one that runs, one whose file cannot be
\* read, and one that only the pipeline accepts.
LoadedConfigs ==
    {[name \in {"a", "b"} |-> IF name = "a" THEN a ELSE b] :
        a \in Configs,
        b \in {[input_file |-> "ok", method |-> "chao1", resolution_km |-> 10],
               [input_file |-> "unreadable", method |-> "speciescount",
                resolution_km |-> 100],
               [input_file |-> "ok", method |-> "rare_species_potential",
                resolution_km |-> 50]}}

RequestedNames == UNION {[1..n -> {"a", "b", "zzz"}] : n \in 0..MaxConfigNames}

\* What load_occurrences reads from an input file that is "ok".
CliRecords ==
    <<[gridCellYKJ |-> K_6783_3458, scientificName |-> "A"],
      [gridCellYKJ |-> K_6712_3499, scientificName |-> "B"]>>

InitCli ==
    /\ configs \in LoadedConfigs
    /\ config_names \in RequestedNames
    /\ map_ok \in BOOLEAN
    /\ reports = <<>>
    /\ success_count = 0
    /\ exit_status = Unset
    /\ method = "" /\ data_with_colors = Unset /\ input_file = ""
    /\ outcome = Unset /\ effects = <<>>
    /\ IdleGrid /\ IdleGroup /\ IdleCell /\ IdleCurve /\ IdleArea

\* The shuffle outcomes process_data can draw while it runs a configuration.
ShufflesOfConfig(config_name) ==
    IF config_name \in DOMAIN configs
    THEN ShufflesFor(CliRecords, configs[config_name].resolution_km)
    ELSE {<<>>}

ExitStatus(n) == [tag |-> "int", val |-> n]

\* Lines 237-239: one iteration of the loop.  An exception that leaves
\* run_config leaves main too and ends the process with status 1.
RunConfig ==
    /\ exit_status = Unset
    /\ Len(reports) < Len(config_names)
    /\ \E config_name \in {config_names[Len(reports) + 1]} :
       \E shuffles \in ShufflesOfConfig(config_name) :
       \E report \in {run_config(config_name, configs, CliRecords, map_ok, shuffles)} :
          /\ reports' = Append(reports, report)
          /\ success_count' = IF report.returned = Bool(TRUE)
                              THEN success_count + 1 ELSE success_count
          /\ exit_status' = IF report.returned.tag = "raise"
                            THEN ExitStatus(1) ELSE exit_status
          /\ effects' = effects \o report.effects
    /\ UNCHANGED <<configs, config_names>>
    /\ UNCHANGED <<method, data_with_colors, input_file, map_ok, outcome>>
    /\ UNCHANGED <<gridVars, groupVars, cellVars, curveVars, area_records, values_dict>>

\* Lines 241-247: the summary after the loop and the exit status.
Summary ==
    /\ exit_status = Unset
    /\ Len(reports) = Len(config_names)
    /\ LET total_count == Len(config_names)
       IN  exit_status' = IF success_count < total_count
                          THEN ExitStatus(1) ELSE ExitStatus(0)
    /\ UNCHANGED <<configs, config_names, reports, success_count>>
    /\ UNCHANGED <<gridVars, groupVars, cellVars, curveVars, area_records, values_dict, pipeVars>>

NextCli == RunConfig \/ Summary

SpecCli == InitCli /\ [][NextCli]_vars

(***************************************************************************)
(* Claims about the Chao1 estimator and the (in)completeness ratios        *)
(* (checked under SpecCell).                                               *)
(***************************************************************************)
Occurrences(lst, sp) == Cardinality({i \in 1..Len(lst) : lst[i] = sp})
Observed(lst)   == Cardinality(Range(lst))                                  \* S_obs
Singletons(lst) == Cardinality({sp \in Range(lst) : Occurrences(lst, sp) = 1})  \* F1
Doubletons(lst) == Cardinality({sp \in Range(lst) : Occurrences(lst, sp) = 2})  \* F2

\* C1: the estimate is the bias-corrected S_obs + F1*(F1-1) / (2*(F2+1)) for
\* every species-count distribution, also when F2 > 0 (the quotient and the
\* sum as floats).  Lines 111-120 compute F1*F1 / (2.0*F2) when F2 > 0:
\* A, B, B gives 2.5 where the bias-corrected estimate is 2.0.
C1_BiasCorrected ==
    S_est.tag = "float" =>
        LET so == Observed(species_list)
            f1 == Singletons(species_list)
            f2 == Doubletons(species_list)
        IN  S_est.val = float_add(float(so), int_truediv(f1 * (f1 - 1), 2 * (f2 + 1)))

\* C2: S_est >= S_obs, with equality exactly when F1 = 0.  Line 115 adds
\* F1*(F1-1) / 2.0, which is 0 for one singleton without doubletons: the
\* list A gives S_est = S_obs = 1.0 although F1 = 1.
C2_EqualityIffNoSingletons ==
    S_est.tag = "float" =>
        /\ ~float_lt(S_est.val, float(Observed(species_list)))
        /\ (S_est.val = float(Observed(species_list)))
              <=> (Singletons(species_list) = 0)

\* C3: completeness and incompleteness of the same list, added as floats,
\* give 1.0 whenever completeness <= 1.5, the empty list included.
C3_SumIsOne ==
    (/\ completeness.tag = "float"
     /\ incompleteness.tag = "float"
     /\ ~float_lt(FLOAT_15, completeness.val)) =>
        float_add(completeness.val, incompleteness.val) = FLOAT_1

\* C3 witness: both ratios computed for a cell that is not fully sampled
\* (completeness 2 / 3.0, a rounded quotient, so that the incompleteness
\* 1.0 - completeness is 0.33333333333333337, not the float of 1/3).
C3_Witness ==
    /\ species_list = <<"A", "B">>
    /\ completeness.tag = "float"
    /\ completeness.val = float_of(Rat(2, 3))
    /\ incompleteness.tag = "float"
    /\ incompleteness.val = float_sub(FLOAT_1, float_of(Rat(2, 3)))
    /\ incompleteness.val # float_of(Rat(1, 3))

(***************************************************************************)
(* Claims about calculate_accumulation_slope (checked under SpecCurve).    *)
(***************************************************************************)
\* C4: for a curve of length n the slope is 0 if n = 1,
\* (curve[n-1] - curve[0]) / (n-1) if 2 <= n < 11, and
\* (curve[n-1] - curve[n-11]) / 10 if n >= 11 (0-based indices; the
\* difference and the quotient as floats).
C4_SlopeFormula ==
    slope.tag = "float" =>
        LET n == Len(accumulation_curve)
        IN  /\ n = 1 => slope.val = FloatZero
            /\ (2 <= n /\ n < 11) =>
                  slope.val = float_div(float_sub(accumulation_curve[n],
                                                  accumulation_curve[1]),
                                        float(n - 1))
            /\ n >= 11 =>
                  slope.val = float_div(float_sub(accumulation_curve[n],
                                                  accumulation_curve[n - 10]),
                                        FLOAT_10)

(***************************************************************************)
(* Claims about calculate_speciescount (checked under SpecArea).           *)
(***************************************************************************)
\* C5: each cell is mapped to the number of distinct names in its list, and
\* that number is the same for every list with the same set of names, whatever
\* its order and its multiplicities.
C5_DistinctNames ==
    values_dict.tag = "dict" =>
        /\ DOMAIN values_dict.val = DOMAIN area_records.val
        /\ \A grid \in DOMAIN area_records.val :
              /\ values_dict.val[grid] = Cardinality(Range(area_records.val[grid]))
              /\ \A other \in CellLists :
                    Range(other) = Range(area_records.val[grid]) =>
                        calculate_speciescount(
                            [area_records.val EXCEPT ![grid] = other])[grid]
                          = values_dict.val[grid]

\* C5 witness: a cell whose list repeats a name was counted.
C5_Witness ==
    /\ values_dict.tag = "dict"
    /\ K_67_34 \in DOMAIN area_records.val
    /\ area_records.val[K_67_34] = <<"A", "B", "A">>
    /\ values_dict.val[K_67_34] = 2

(***************************************************************************)
(* Claims about convert_to_resolution (checked under SpecGrid).            *)
(***************************************************************************)

IsDigitString(c) == Len(c) > 0 /\ \A i \in 1..Len(c) : c[i] \in DigitChars

\* The component has more digits than the target resolution requires.
OverLong(c, target) == IsDigitString(c) /\ Len(c) > digits_needed(target)

\* The leading `needed` digits of an over-long component: the component with
\* its low-order digits discarded, floor(component / 10^excess).
Truncated(c, target) == SubSeq(c, 1, digits_needed(target))

InCompsOf(k)  == split(k, ":")
OutComps      == split(converted.val, ":")

\* C6, as stated: at every resolution in {1, 10, 50, 100} an over-long component
\* is replaced by floor(component / 10^excess), its leading digits.
C6_Original ==
    (converted.tag = "str" /\ target_resolution_km \in ValidResolutions) =>
        \A i \in 1..2 :
            OverLong(InCompsOf(grid_cell)[i], target_resolution_km) =>
                /\ OutComps[i] = Truncated(InCompsOf(grid_cell)[i], target_resolution_km)
                /\ DecimalValue(OutComps[i]) =
                      DecimalValue(InCompsOf(grid_cell)[i])
                          \div Pow10(Len(InCompsOf(grid_cell)[i])
                                       - digits_needed(target_resolution_km))

\* C6, amended: at 1, 10 and 100 km an over-long component is replaced by
\* floor(component / 10^excess), i.e. by its leading digits; at 50 km it is
\* replaced by the largest multiple of 5 that is <= that floor.  The result
\* never exceeds the floor (no rounding up), and "6789:3458" at 100 km is "67:34".
C6_Truncation ==
    /\ (converted.tag = "str" /\ target_resolution_km \in ValidResolutions) =>
          \A i \in 1..2 :
              OverLong(InCompsOf(grid_cell)[i], target_resolution_km) =>
                  LET floored == DecimalValue(InCompsOf(grid_cell)[i])
                                    \div Pow10(Len(InCompsOf(grid_cell)[i])
                                                 - digits_needed(target_resolution_km))
                      out     == DecimalValue(OutComps[i])
                  IN  /\ IsDigitString(OutComps[i])
                      /\ Len(OutComps[i]) = digits_needed(target_resolution_km)
                      /\ DecimalValue(Truncated(InCompsOf(grid_cell)[i], target_resolution_km))
                            = floored
                      /\ out <= floored
                      /\ IF target_resolution_km = 50
                         THEN out % 5 = 0 /\ floored < out + 5
                         ELSE /\ out = floored
                              /\ OutComps[i] = Truncated(InCompsOf(grid_cell)[i],
                                                         target_resolution_km)
    /\ (grid_cell = K_6789_3458 /\ target_resolution_km = 100 /\ converted # Unset) =>
          converted = Str(K_67_34)

\* C6 witness: an over-long component was cut and, at 50 km, rounded down.
C6_Witness ==
    /\ grid_cell = K_6789_3458
    /\ target_resolution_km = 50
    /\ converted = Str(K_675_345)

\* C7, as stated: "6789:3458" converted to 50 km yields "670:345".
C7_Original ==
    (grid_cell = K_6789_3458 /\ target_resolution_km = 50 /\ converted # Unset) =>
        converted = Str(K_670_345)

\* C7, amended: "6789:3458" converted to 50 km yields "675:345"
\* (678 rounded down to the nearest multiple of 5 is 675).
C7_Yields675 ==
    (grid_cell = K_6789_3458 /\ target_resolution_km = 50 /\ converted # Unset) =>
        converted = Str(K_675_345)

\* C7 witness: the conversion of "6789:3458" to 50 km has returned.
C7_Witness ==
    /\ grid_cell = K_6789_3458
    /\ target_resolution_km = 50
    /\ converted.tag = "str"

NonNegativeKey(k) ==
    /\ Len(split(k, ":")) = 2
    /\ \A i \in 1..2 : int(split(k, ":")[i]).ok /\ "-" \notin Range(split(k, ":")[i])

\* C8, as stated: for every key whose conversion succeeds, converting the
\* returned key again at the same resolution returns it unchanged.
C8_Original ==
    reconverted # Unset => reconverted = converted

\* C8, amended: for every key whose components carry no minus sign and every
\* resolution for which the conversion succeeds, converting the returned key
\* again at the same resolution returns it unchanged; a key with two digits per
\* component converted to 100 km is returned unchanged.
C8_Idempotent ==
    /\ (reconverted # Unset /\ NonNegativeKey(grid_cell)) => reconverted = converted
    /\ (/\ converted # Unset
        /\ target_resolution_km = 100
        /\ Len(InCompsOf(grid_cell)) = 2
        /\ \A i \in 1..2 : IsDigitString(InCompsOf(grid_cell)[i])
                              /\ Len(InCompsOf(grid_cell)[i]) = 2)
          => converted = Str(grid_cell)

\* C8 witness: a key that was really changed by the first conversion has been
\* converted a second time.
C8_Witness ==
    /\ grid_cell = K_6789_3458
    /\ target_resolution_km = 50
    /\ reconverted = Str(K_675_345)

\* The text of a Python integer literal as int() accepts it: whitespace, one
\* optional sign directly before the digits, digits with single underscores
\* between them, whitespace.
IsIntLiteral(c) ==
    \E a \in 1..Len(c), b \in 1..Len(c) :
        /\ a <= b
        /\ c[a] \in DigitChars
        /\ c[b] \in DigitChars
        /\ \A i \in a..b : c[i] \in DigitChars \/ (c[i] = "_" /\ c[i + 1] \in DigitChars)
        /\ \A i \in (b + 1)..Len(c) : c[i] \in Whitespace
        /\ \A i \in 1..(a - 1) : c[i] \in Whitespace \/ (i = a - 1 /\ c[i] \in {"+", "-"})

NumSeparators(k) == Cardinality({i \in 1..Len(k) : k[i] = ":"})

\* A malformed key: no ':', more than one ':', an empty component, or a
\* component that is not the text of an integer.
Malformed(k) ==
    \/ NumSeparators(k) # 1
    \/ \E i \in 1..2 : Len(split(k, ":")[i]) = 0
    \/ \E i \in 1..2 : ~IsIntLiteral(split(k, ":")[i])

\* C9: a malformed key is answered with None at every target resolution, and
\* the conversion never raises.
C9_MalformedIsNone ==
    /\ converted.tag # "raise"
    /\ reconverted.tag # "raise"
    /\ (converted # Unset /\ Malformed(grid_cell)) => converted = None

\* C9 witness: a key with a non-numeric component was converted at an offered
\* resolution.
C9_Witness ==
    /\ grid_cell = <<"5", ":", "x">>
    /\ target_resolution_km = 100
    /\ converted = None

(***************************************************************************)
(* Claims about group_by_grid_cell (checked under SpecGroup).              *)
(***************************************************************************)
ConvertsTo(record, key) ==
    convert_to_resolution(record.gridCellYKJ, resolution_km) = Str(key)

Converts(record) ==
    convert_to_resolution(record.gridCellYKJ, resolution_km).tag = "str"

\* The names, in arrival order, of the records whose key converts to `key`.
NamesArrivingAt(key) ==
    LET sel == SelectSeq(records, LAMBDA r : ConvertsTo(r, key))
    IN  [i \in 1..Len(sel) |-> sel[i].scientificName]

RECURSIVE SumOfLengths(_, _)
SumOfLengths(area, keys) ==
    IF keys = {} THEN 0
    ELSE LET k == CHOOSE x \in keys : TRUE
         IN  Len(area[k]) + SumOfLengths(area, keys \ {k})

\* C10: at a valid resolution the mapping returned by group_by_grid_cell holds,
\* for each key, exactly the names of the records converting to that key, in
\* arrival order with duplicates; failed conversions are dropped without an
\* exception, no list is empty, and the lengths sum to the number of records
\* that converted.
C10_Grouping ==
    (area_records.tag # "unset" /\ resolution_km \in ValidResolutions) =>
        /\ area_records.tag = "dict"
        /\ DOMAIN area_records.val =
              {convert_to_resolution(records[i].gridCellYKJ, resolution_km).val :
                  i \in {j \in 1..Len(records) : Converts(records[j])}}
        /\ \A key \in DOMAIN area_records.val :
              /\ area_records.val[key] = NamesArrivingAt(key)
              /\ Len(area_records.val[key]) > 0
        /\ SumOfLengths(area_records.val, DOMAIN area_records.val) =
              Cardinality({j \in 1..Len(records) : Converts(records[j])})

\* C10 witness: two records of one 100 km cell with the same species around a
\* record whose key is malformed.
C10_Witness ==
    /\ resolution_km = 100
    /\ records = <<[gridCellYKJ |-> K_6789_3458, scientificName |-> "A"],
                   [gridCellYKJ |-> K_5_x, scientificName |-> "B"],
                   [gridCellYKJ |-> K_6712_3499, scientificName |-> "A"]>>
    /\ area_records.tag = "dict"
    /\ DOMAIN area_records.val = {K_67_34}
    /\ area_records.val[K_67_34] = <<"A", "A">>

\* C11, as stated: with a resolution outside {1, 10, 50, 100}
\* group_by_grid_cell fails with an error instead of returning a mapping.
C11_Original ==
    (area_records.tag # "unset" /\ resolution_km \notin ValidResolutions) =>
        area_records.tag = "raise"

\* C11, amended: with a resolution outside {1, 10, 50, 100} group_by_grid_cell
\* raises nothing: every conversion answers None, every record is dropped and
\* the empty mapping is returned.
C11_EmptyMapping ==
    (area_records.tag # "unset" /\ resolution_km \notin ValidResolutions) =>
        /\ area_records.tag = "dict"
        /\ DOMAIN area_records.val = {}

\* C11 witness: three records with well-formed keys were grouped at 25 km.
C11_Witness ==
    /\ resolution_km = 25
    /\ Len(records) = 3
    /\ \A i \in 1..3 : records[i].gridCellYKJ = K_6789_3458
    /\ area_records.tag = "dict"

(***************************************************************************)
(* Further claims about convert_to_resolution (checked under SpecGrid).    *)
(***************************************************************************)
\* C18: for a key with non-negative decimal components and a resolution in
\* {1, 10, 50, 100}, both returned components are digit strings of exactly the
\* required length (4, 3, 3, 2), whatever the lengths of the input components.
C18_EqualDigitCount ==
    (/\ converted # Unset
     /\ target_resolution_km \in ValidResolutions
     /\ NonNegativeKey(grid_cell)) =>
        /\ converted.tag = "str"
        /\ Len(OutComps) = 2
        /\ \A i \in 1..2 :
              /\ IsDigitString(OutComps[i])
              /\ Len(OutComps[i]) = (CASE target_resolution_km = 1 -> 4
                                       [] target_resolution_km = 10 -> 3
                                       [] target_resolution_km = 50 -> 3
                                       [] target_resolution_km = 100 -> 2)

\* C18 witness: components of one and of four digits came out with four
\* digits each, the short one padded and the value 0 kept as "0000".
C18_Witness ==
    /\ grid_cell = <<"0", ":", "6", "7", "8", "9">>
    /\ target_resolution_km = 1
    /\ converted = Str(<<"0", "0", "0", "0", ":", "6", "7", "8", "9">>)

\* The three-digit value the 50 km step starts from: the leading three digits
\* of a longer component, a shorter one extended with zeros.
ThreeDigitValue(c) ==
    IF Len(c) >= 3 THEN DecimalValue(SubSeq(c, 1, 3))
    ELSE DecimalValue(c) * Pow10(3 - Len(c))

\* C19: at 50 km each returned component is the largest multiple of 5 that is
\* <= the component cut to 3 digits; "6783:3458" yields "675:345".
C19_MultipleOfFive ==
    /\ (/\ converted.tag = "str"
        /\ target_resolution_km = 50
        /\ \A i \in 1..2 : IsDigitString(InCompsOf(grid_cell)[i])) =>
          \A i \in 1..2 :
              LET out == DecimalValue(OutComps[i])
                  cut == ThreeDigitValue(InCompsOf(grid_cell)[i])
              IN  /\ IsDigitString(OutComps[i])
                  /\ out % 5 = 0
                  /\ out <= cut
                  /\ cut < out + 5
                  /\ OutComps[i][Len(OutComps[i])] \in {"0", "5"}
    /\ (grid_cell = K_6783_3458 /\ target_resolution_km = 50 /\ converted # Unset) =>
          converted = Str(K_675_345)

\* C19 witness: "6783:3458" was converted to 50 km.
C19_Witness ==
    /\ grid_cell = K_6783_3458
    /\ target_resolution_km = 50
    /\ converted = Str(K_675_345)
    /\ reconverted = Unset

(***************************************************************************)
(* Claims about the analysis methods over a mapping (checked under         *)
(* SpecEst).                                                               *)
(***************************************************************************)
\* What a method answers for a cell without records.
EmptyCellValue(m) ==
    CASE m = "speciescount"           -> 0
      [] m = "chao1"                  -> FLOAT_1
      [] m = "accumulation_curve"     -> FloatZero
      [] m = "rare_species_potential" -> FloatZero

\* C13: each of the four analysis methods returns, for every mapping (the
\* empty mapping and cells with empty lists included), a mapping over exactly
\* the cells of its input; a cell with an empty list has richness 0,
\* incompleteness 1.0 and slope 0.0, and calculate_completeness of an empty
\* list is 0.0.
C13_Total ==
    /\ calculate_completeness(<<>>) = FloatZero
    /\ values_dict.tag # "unset" =>
          /\ values_dict.tag = "dict"
          /\ DOMAIN values_dict.val = DOMAIN area_records.val
          /\ \A grid \in DOMAIN area_records.val :
                area_records.val[grid] = <<>> =>
                    values_dict.val[grid] = EmptyCellValue(method)

C13_Witness ==
    /\ values_dict.tag = "dict"
    /\ method = "accumulation_curve"
    /\ \E g1, g2 \in DOMAIN area_records.val :
          /\ area_records.val[g1] = <<>>
          /\ values_dict.val[g1] = FloatZero
          /\ float_lt(FloatZero, values_dict.val[g2])

(***************************************************************************)
(* Claims about calculate_rare_species_potential (checked under SpecRare). *)
(***************************************************************************)
\* The quantities the score of a cell is made of, each as a finite set:
\*   present    <<cell, species>>: the species occurs in the cell
\*   rare       species with at most 50 records over all cells
\*   indicators <<rs, o>>: the non-rare species o shares a cell with the rare rs
\*   weights    <<<<rs, o>>, cell>>: one element per cell that rs and o share
\*   absent     <<cell, rs>>: the considered rare species rs is not in the cell
\*   hits       <<cell, <<<<rs, o>>, g>>>>: rs is absent from the cell, its
\*              indicator o is present, and g is a cell that rs and o share
Scoring(area) ==
    LET cells   == DOMAIN area
        species == UNION {Range(area[g]) : g \in cells}
        present == {p \in cells \X species : p[2] \in Range(area[p[1]])}
        records_of(sp) ==
            {q \in UNION {{<<g, i>> : i \in 1..Len(area[g])} : g \in cells} :
                area[q[1]][q[2]] = sp}
        rare    == {sp \in species : Cardinality(records_of(sp)) <= 50}
        indicators ==
            {p \in rare \X (species \ rare) :
                \E g \in cells : <<g, p[1]>> \in present /\ <<g, p[2]>> \in present}
        weights ==
            {t \in indicators \X cells :
                <<t[2], t[1][1]>> \in present /\ <<t[2], t[1][2]>> \in present}
        considered == {p[1] : p \in indicators}
        absent  == {a \in cells \X considered : a \notin present}
        hits    == {h \in cells \X weights :
                       /\ <<h[1], h[2][1][1]>> \in absent
                       /\ <<h[1], h[2][1][2]>> \in present}
    IN  [rare |-> rare, common |-> species \ rare, indicators |-> indicators,
         absent |-> absent, hits |-> hits]

NumAbsent(sc, c) == Cardinality({a \in sc.absent : a[1] = c})
WeightSum(sc, c) == Cardinality({h \in sc.hits : h[1] = c})

RawScore(area, sc, c) ==
    IF NumAbsent(sc, c) = 0 \/ WeightSum(sc, c) = 0 THEN FloatZero
    ELSE float_mul(int_truediv(WeightSum(sc, c), NumAbsent(sc, c)),
                   float_add(FLOAT_1, calculate_incompleteness(area[c])))

\* <<cell, un-normalized score>> for every cell.
RawScores(area) ==
    LET sc == Scoring(area)
    IN  {<<c, RawScore(area, sc, c)>> : c \in DOMAIN area}

\* C14: the returned score is 0.0 for every cell when no species has a total
\* count of at most 50, and also when rare species exist but none of them
\* shares a cell with a non-rare species.
C14_AllZero ==
    values_dict.tag = "dict" =>
        LET area == area_records.val
            sc   == Scoring(area)
        IN  (sc.rare = {} \/ sc.indicators = {})
            => /\ DOMAIN values_dict.val = DOMAIN area
               /\ \A c \in DOMAIN area : values_dict.val[c] = FloatZero

C14_Witness ==
    /\ values_dict.tag = "dict"
    /\ LET area == area_records.val
           sc   == Scoring(area)
       IN  /\ sc.rare # {}
           /\ sc.common # {}
           /\ sc.indicators = {}
           /\ Cardinality(DOMAIN area) = 3
           /\ \A c \in DOMAIN area : values_dict.val[c] = FloatZero

\* C15: every returned score lies in [0, 1]; when some cell has a positive
\* un-normalized score the largest returned score is exactly 1, and otherwise
\* every returned score is 0.
C15_Normalized ==
    values_dict.tag = "dict" =>
        LET v   == values_dict.val
            raw == RawScores(area_records.val)
        IN  /\ \A c \in DOMAIN v : ~float_lt(v[c], FloatZero) /\ ~float_lt(FLOAT_1, v[c])
            /\ IF \E p \in raw : float_lt(FloatZero, p[2])
               THEN \E c \in DOMAIN v : v[c] = FLOAT_1
               ELSE \A c \in DOMAIN v : v[c] = FloatZero

C15_Witness ==
    /\ values_dict.tag = "dict"
    /\ \E c1, c2, c3 \in DOMAIN values_dict.val :
          /\ values_dict.val[c1] = FLOAT_1
          /\ float_lt(FloatZero, values_dict.val[c2])
          /\ float_lt(values_dict.val[c2], FLOAT_1)
          /\ values_dict.val[c3] = FloatZero

\* C20: before normalization the score of a cell is (the sum, over the
\* considered rare species absent from the cell, of the weights of their
\* indicator species present in the cell) / (the number of considered rare
\* species absent from the cell) * (1 + incompleteness(cell)), and 0 when no
\* considered rare species is absent or the weight sum is 0; the returned
\* scores are these divided by their maximum, when it is above 0 (quotients,
\* sum and product as floats).
C20_ScoreFormula ==
    values_dict.tag = "dict" =>
        LET area == area_records.val
            v    == values_dict.val
            raw  == RawScores(area)
            indicators ==
                find_indicator_species(area,
                    identify_rare_species(area, RARE_SPECIES_MAX_OCCURRENCES))
            top  == CHOOSE p \in raw : \A q \in raw : ~float_lt(p[2], q[2])
        IN  /\ DOMAIN indicators # {} =>
                  \A p \in raw : cell_potential(area[p[1]], indicators) = p[2]
            /\ \A p \in raw :
                  v[p[1]] = IF float_lt(FloatZero, top[2]) THEN float_div(p[2], top[2])
                            ELSE p[2]

C20_Witness ==
    /\ values_dict.tag = "dict"
    /\ LET area == area_records.val
           sc   == Scoring(area)
       IN  \E c, d \in DOMAIN area :
              /\ WeightSum(sc, c) = 3
              /\ NumAbsent(sc, c) = 2
              /\ float_lt(FloatZero, values_dict.val[c])
              /\ float_lt(FloatZero, calculate_incompleteness(area[d]))
              /\ float_lt(FloatZero, values_dict.val[d])
              /\ values_dict.val[c] # values_dict.val[d]

(***************************************************************************)
(* Claim about the accumulation curve of one species (checked under        *)
(* SpecAccum).                                                             *)
(***************************************************************************)
\* C16: for a list that holds one species n >= 1 times, the slope computed
\* from the curve of build_accumulation_curve is 0, for every n and every
\* outcome of the shuffles.
C16_UniformSlopeZero ==
    (slope.tag = "float" /\ Len(species_list) >= 1
        /\ \A i \in 1..Len(species_list) : species_list[i] = species_list[1])
    => /\ slope.val = FloatZero
       /\ Len(accumulation_curve) = Len(species_list)
       /\ \A i \in 1..Len(accumulation_curve) : accumulation_curve[i] = FLOAT_1

C16_Witness ==
    /\ slope = Float(FloatZero)
    /\ Len(species_list) = 11
    /\ \A i \in 1..Len(species_list) : species_list[i] = "A"
    /\ Len(accumulation_curve) = 11

(***************************************************************************)
(* Claim about the colour mapper (checked under SpecColor).                *)
(***************************************************************************)
\* C17: when all values of a non-empty score map are equal,
\* add_colors_to_values gives every cell the colour "#0000ff"; for example
\* {"67:34": 2, "67:35": 2}.
C17_EqualValuesBlue ==
    (data_with_colors.tag = "dict" /\ DOMAIN values_dict.val # {}
        /\ \A c, d \in DOMAIN values_dict.val : values_dict.val[c] = values_dict.val[d])
    => /\ DOMAIN data_with_colors.val = DOMAIN values_dict.val
       /\ \A c \in DOMAIN values_dict.val :
             /\ data_with_colors.val[c].color = <<"#", "0", "0", "0", "0", "f", "f">>
             /\ data_with_colors.val[c].value = values_dict.val[c]

C17_Witness ==
    /\ values_dict = Dict((K_67_34 :> float(2)) @@ (<<"6", "7", ":", "3", "5">> :> float(2)))
    /\ data_with_colors.tag = "dict"
    /\ \A c \in DOMAIN data_with_colors.val :
          data_with_colors.val[c].color = <<"#", "0", "0", "0", "0", "f", "f">>

(***************************************************************************)
(* Claim about the validation in process_data (checked under SpecPipe).    *)
(***************************************************************************)
Called(step) == \E i \in 1..Len(effects) : effects[i] = step

NothingProduced ==
    /\ ~Called("analysis_func")
    /\ ~Called("json.dump")
    /\ ~Called("create_finland_map")
    /\ values_dict = Unset
    /\ data_with_colors = Unset

\* C12, as stated: a resolution outside {1, 10, 50, 100} or a method name
\* outside the registry makes process_data raise ValueError, with no
\* estimator invoked, no JSON file written and no map rendered.
C12_Original ==
    (outcome.tag # "unset"
        /\ (resolution_km \notin {1, 10, 50, 100} \/ method \notin METHODS))
    => outcome = Raise("ValueError") /\ NothingProduced

\* C12, amended: an invalid resolution raises ValueError before anything else
\* is done; an unknown method name with a valid resolution is detected after
\* the records are loaded and grouped, so it raises ValueError when the input
\* file can be read, and FileNotFoundError or RuntimeError from the loader
\* when it cannot; in each case no estimator is invoked, no JSON file is
\* written and no map is rendered.
C12_ValidationError ==
    (outcome.tag # "unset"
        /\ (resolution_km \notin {1, 10, 50, 100} \/ method \notin METHODS))
    => /\ NothingProduced
       /\ outcome.tag = "raise"
       /\ resolution_km \notin {1, 10, 50, 100} =>
             outcome = Raise("ValueError") /\ effects = <<>>
       /\ resolution_km \in {1, 10, 50, 100} =>
             outcome = Raise(CASE input_file = "ok"      -> "ValueError"
                               [] input_file = "missing" -> "FileNotFoundError"
                               [] OTHER                  -> "RuntimeError")

C12_Witness ==
    /\ method = "bogus"
    /\ resolution_km = 10
    /\ input_file = "ok"
    /\ outcome = Raise("ValueError")
    /\ effects = <<"mkdir", "load_occurrences", "group_by_grid_cell", "get_method">>
    /\ area_records.tag = "dict"
    /\ NothingProduced

(***************************************************************************)
(* Claim about find_indicator_species (checked under SpecRare).            *)
(***************************************************************************)
\* The cells in which the species sp occurs.
CellsWith(area, sp) == {g \in DOMAIN area : \E i \in 1..Len(area[g]) : area[g][i] = sp}

\* The species outside rare that occur in some cell together with rs.
CompanionsOf(area, rare, rs) ==
    {o \in (UNION {Range(area[g]) : g \in DOMAIN area}) \ rare :
        CellsWith(area, rs) \cap CellsWith(area, o) # {}}

IndicatorsAsClaimed(area, rare) ==
    \E result \in {find_indicator_species(area, rare)} :
        /\ DOMAIN result = {rs \in rare : CompanionsOf(area, rare, rs) # {}}
        /\ \A rs \in DOMAIN result :
              /\ DOMAIN result[rs] = CompanionsOf(area, rare, rs)
              /\ DOMAIN result[rs] \cap rare = {}
              /\ \A o \in DOMAIN result[rs] :
                    result[rs][o]
                        = Cardinality(CellsWith(area, rs) \cap CellsWith(area, o))

\* C21: find_indicator_species maps each rare species to exactly the non-rare
\* species that share at least one cell with it, each weighted by the number
\* of cells holding both (repeated records of a cell count once); no rare
\* species is an indicator, and a rare species without such a companion is
\* not in the result.  Checked for the rare species of the mapping and for
\* every other set of species passed as rare_species.
C21_Indicators ==
    values_dict.tag = "dict" =>
        LET area == area_records.val
        IN  /\ IndicatorsAsClaimed(area,
                   identify_rare_species(area, RARE_SPECIES_MAX_OCCURRENCES))
            /\ \A rare \in SUBSET {"A", "B", "C", "D"} : IndicatorsAsClaimed(area, rare)

C21_Witness ==
    /\ values_dict.tag = "dict"
    /\ \E result \in {find_indicator_species(area_records.val,
                          identify_rare_species(area_records.val,
                                                RARE_SPECIES_MAX_OCCURRENCES))} :
          /\ "A" \in DOMAIN result
          /\ DOMAIN result["A"] = {"C", "D"}
          /\ result["A"]["C"] = 1
          /\ Cardinality(CellsWith(area_records.val, "C")) = 2
          /\ "B" \notin DOMAIN result
          /\ CellsWith(area_records.val, "B") # {}

(***************************************************************************)
(* Claim about the colour ramp (checked under SpecColor).                  *)
(***************************************************************************)
HexValueOf(ch) == CHOOSE v \in 0..15 : HexChars[v + 1] = ch

IsHexChar(ch) == \E v \in 0..15 : HexChars[v + 1] = ch

\* The number written by the two hexadecimal digits at positions i and i + 1.
Channel(color, i) == 16 * HexValueOf(color[i]) + HexValueOf(color[i + 1])

\* normalized < n/100, for the float normalized = (value - lo) / (hi - lo)
\* with lo < hi and the float literal of the hundredths n.
NormalizedBelow(value, lo, hi, n) ==
    float_lt(float_div(float_sub(value, lo), float_sub(hi, lo)), float_of(Rat(n, 100)))

\* C22: for min < max and min <= value <= max the colour is "#" followed by
\* exactly 6 hexadecimal digits, so each of red, green and blue is an integer
\* in 0..255; a normalized value in [0, 0.33) has r = 0 and b = 255, one in
\* [0.33, 0.67) has g = 255, one in [0.67, 1] has r = 255 and b = 0; the
\* minimum maps to "#0000ff" and the maximum to "#ff0000".
C22_RampSegments ==
    data_with_colors.tag = "dict" =>
        LET v == values_dict.val
        IN  \A lo, hi, c \in DOMAIN v :
                ((\A d \in DOMAIN v : ~float_lt(v[d], v[lo]) /\ ~float_lt(v[hi], v[d]))
                    /\ float_lt(v[lo], v[hi]))
                => \E color \in {data_with_colors.val[c].color} :
                      /\ Len(color) = 7
                      /\ color[1] = "#"
                      /\ \A i \in 2..7 : IsHexChar(color[i])
                      /\ \A i \in {2, 4, 6} : Channel(color, i) \in 0..255
                      /\ NormalizedBelow(v[c], v[lo], v[hi], 33) =>
                            Channel(color, 2) = 0 /\ Channel(color, 6) = 255
                      /\ (~NormalizedBelow(v[c], v[lo], v[hi], 33)
                             /\ NormalizedBelow(v[c], v[lo], v[hi], 67)) =>
                            Channel(color, 4) = 255
                      /\ ~NormalizedBelow(v[c], v[lo], v[hi], 67) =>
                            Channel(color, 2) = 255 /\ Channel(color, 6) = 0
                      /\ v[c] = v[lo] => color = <<"#", "0", "0", "0", "0", "f", "f">>
                      /\ v[c] = v[hi] => color = <<"#", "f", "f", "0", "0", "0", "0">>

C22_Witness ==
    /\ data_with_colors.tag = "dict"
    /\ \E c1, c2, c3 \in DOMAIN data_with_colors.val :
          /\ data_with_colors.val[c1] =
                [color |-> <<"#", "0", "0", "0", "0", "f", "f">>, value |-> float(0)]
          /\ data_with_colors.val[c2] =
                [color |-> <<"#", "7", "f", "f", "f", "7", "f">>, value |-> float(3)]
          /\ data_with_colors.val[c3] =
                [color |-> <<"#", "f", "f", "0", "0", "0", "0">>, value |-> float(6)]

(***************************************************************************)
(* Claim about the inputs of the analysis methods (checked under SpecEst). *)
(***************************************************************************)
\* C23: no analysis method modifies its input: across every call of
\* calculate_speciescount, calculate_chao1, calculate_accumulation_curve and
\* calculate_rare_species_potential the mapping keeps its cells and every
\* species list keeps its records in their order, each shuffle being applied
\* to a copy of the list.
C23_InputUnchanged ==
    [][/\ area_records'.tag = "dict"
       /\ DOMAIN area_records'.val = DOMAIN area_records.val
       /\ \A grid \in DOMAIN area_records.val :
             area_records'.val[grid] = area_records.val[grid]]_vars

C23_Witness ==
    /\ values_dict.tag = "dict"
    /\ method = "accumulation_curve"
    /\ \E g1, g2 \in DOMAIN area_records.val :
          /\ g1 # g2
          /\ area_records.val[g1] = <<"A", "C">>
          /\ area_records.val[g2] = <<"C", "A">>

(***************************************************************************)
(* Claim about the order of the steps of process_data (checked under       *)
(* SpecPipe).                                                              *)
(***************************************************************************)
StepOrder == <<"load_occurrences", "group_by_grid_cell", "analysis_func",
               "add_colors_to_values", "json.dump", "create_finland_map">>

\* The steps of StepOrder among the calls made, in the order they were made.
StepsMade == SelectSeq(effects, LAMBDA e : \E i \in 1..Len(StepOrder) : StepOrder[i] = e)

\* C24: process_data runs load, group, compute values, add colours, save
\* JSON, generate map in this order, each step only after all earlier ones
\* completed; an empty grouping or an empty result of the method raises
\* ValueError with no JSON file and no map; the renderer is called only after
\* the JSON file was written, and when it fails RuntimeError is raised while
\* the JSON file stays written.
C24_StepOrder ==
    /\ \A rendered \in BOOLEAN :
          \E run \in {process_data_values(Dict(K_67_34 :> <<"A">>), <<>>, rendered)} :
              /\ run.outcome = Raise("ValueError")
              /\ \A i \in 1..Len(run.effects) :
                    run.effects[i] \notin {"json.dump", "create_finland_map"}
    /\ outcome.tag # "unset" =>
          /\ StepsMade = SubSeq(StepOrder, 1, Len(StepsMade))
          /\ (area_records.tag = "dict" /\ DOMAIN area_records.val = {}) =>
                /\ outcome = Raise("ValueError")
                /\ StepsMade = <<"load_occurrences", "group_by_grid_cell">>
          /\ Called("create_finland_map") =>
                /\ Called("json.dump")
                /\ data_with_colors.tag = "dict"
                /\ outcome = (IF map_ok THEN Returned ELSE Raise("RuntimeError"))
          /\ outcome.tag = "tuple" => StepsMade = StepOrder

C24_Witness ==
    /\ ~map_ok
    /\ outcome = Raise("RuntimeError")
    /\ StepsMade = StepOrder
    /\ data_with_colors.tag = "dict"
    /\ method = "chao1"

(***************************************************************************)
(* Claim about the index read by calculate_accumulation_slope (checked     *)
(* under SpecCurve).                                                       *)
(***************************************************************************)
\* C25: whenever calculate_accumulation_slope reads the point "10 records
\* back" at index n - 11 of a curve of length n >= 2, that index lies inside
\* the curve: 0 <= n - 11 <= n - 1.
C25_IndexInRange ==
    (slope.tag = "float" /\ Len(accumulation_curve) >= 2
        /\ reads_point_10_back(accumulation_curve))
    => LET n == Len(accumulation_curve)
       IN  0 <= index_10_back(n) /\ index_10_back(n) <= n - 1

(***************************************************************************)
(* Claim about the shape of the averaged accumulation curve (checked under *)
(* SpecBuild, over every outcome of the shuffles).                         *)
(***************************************************************************)
\* The integer nearest to n_iterations times a value of the curve: the sum
\* of the running counts that the value is the average of.
SumOfAverage(x) ==
    int_of_float(float_add(float_mul(x, float(n_iterations_arg)), float_of(Rat(1, 2))))

\* C26, as stated: for every non-empty species list of n records and every
\* outcome of the shuffles, the averaged curve of build_accumulation_curve
\* has length n, its first value is exactly 1, its last value is exactly the
\* number of distinct species of the list, and it is non-decreasing with
\* every increment between 0 and 1; for the empty list the curve is empty.
C26_Original ==
    averaged_curve.tag = "list" =>
        LET n == Len(species_list)
            curve == averaged_curve.val
        IN  IF n = 0 THEN curve = <<>>
            ELSE /\ Len(curve) = n
                 /\ curve[1] = FLOAT_1
                 /\ curve[n] = float(Cardinality(set_of(species_list)))
                 /\ \A i \in 1..(n - 1) :
                       /\ ~float_lt(curve[i + 1], curve[i])
                       /\ ~float_lt(FLOAT_1, float_sub(curve[i + 1], curve[i]))

\* C26, amended: the averaged curve has length n, its first value is exactly
\* 1, its last value is exactly the number of distinct species, it is
\* non-decreasing, and every value is the float nearest to k / n_iterations
\* for an integer k, the increment of k from one place to the next lying
\* between 0 and n_iterations (the exact averages grow by 0 to 1; the
\* difference of the two floats can be larger than 1); for the empty list
\* the curve is empty.
C26_CurveShape ==
    averaged_curve.tag = "list" =>
        LET n == Len(species_list)
            curve == averaged_curve.val
            sums == [i \in 1..Len(curve) |-> SumOfAverage(curve[i])]
        IN  IF n = 0 THEN curve = <<>>
            ELSE /\ Len(curve) = n
                 /\ curve[1] = FLOAT_1
                 /\ curve[n] = float(Cardinality(set_of(species_list)))
                 /\ \A i \in 1..n :
                       curve[i] = int_truediv(sums[i], n_iterations_arg)
                 /\ \A i \in 1..(n - 1) :
                       /\ ~float_lt(curve[i + 1], curve[i])
                       /\ sums[i + 1] - sums[i] \in 0..n_iterations_arg

\* C26 witness: of 3 shuffles of A, A, B, C, two count 1, 1, 2, 3 and one
\* counts 1, 2, 3, 3: the averaged curve is 1, 4/3, 7/3, 3 as floats
\* (1.3333333333333333 and 2.3333333333333335), the exact averages 4/3 and
\* 7/3 differ by 1 and the two floats by 1.0000000000000002.
C26_Witness ==
    /\ averaged_curve.tag = "list"
    /\ species_list = <<"A", "A", "B", "C">>
    /\ n_iterations_arg = 3
    /\ averaged_curve.val
          = <<FLOAT_1, int_truediv(4, 3), int_truediv(7, 3), float(3)>>
    /\ float_lt(FLOAT_1, float_sub(averaged_curve.val[3], averaged_curve.val[2]))

(***************************************************************************)
(* Claim about the range of the ratio of observed to estimated richness    *)
(* (checked under SpecCell).                                               *)
(***************************************************************************)
ObservedRichness == Cardinality(set_of(species_list))

\* C27: for every non-empty species list the ratio S_obs / S_est of
\* calculate_chao1_estimator lies in (0, 1]; calculate_completeness returns
\* that ratio, in (0, 1], so its cap at 1.5 never takes effect, and
\* calculate_incompleteness returns 1 - ratio, in [0, 1), so its clamp at 0
\* never takes effect (ratio and difference as floats).
C27_RatioRange ==
    Len(species_list) > 0 =>
        /\ S_est.tag = "float" =>
              /\ float_lt(FloatZero, S_est.val)
              /\ float_lt(FloatZero, float_div(float(ObservedRichness), S_est.val))
              /\ ~float_lt(FLOAT_1, float_div(float(ObservedRichness), S_est.val))
        /\ completeness.tag = "float" =>
              /\ float_lt(FloatZero, completeness.val)
              /\ ~float_lt(FLOAT_1, completeness.val)
              /\ S_est.tag = "float" =>
                    completeness.val = float_div(float(ObservedRichness), S_est.val)
        /\ incompleteness.tag = "float" =>
              /\ ~float_lt(incompleteness.val, FloatZero)
              /\ float_lt(incompleteness.val, FLOAT_1)
              /\ S_est.tag = "float" =>
                    incompleteness.val =
                        float_sub(FLOAT_1, float_div(float(ObservedRichness), S_est.val))

\* A, B, B: one singleton and one doubleton, S_est = 2.5, ratio 0.8,
\* incompleteness 1.0 - 0.8 = 0.19999999999999996.
C27_Witness ==
    /\ species_list = <<"A", "B", "B">>
    /\ S_est = Float(float_of(Rat(5, 2)))
    /\ completeness = Float(float_of(Rat(4, 5)))
    /\ incompleteness = Float(float_sub(FLOAT_1, float_of(Rat(4, 5))))

(***************************************************************************)
(* Claim about two conversions in a row (checked under SpecCoarsen).       *)
(***************************************************************************)
\* C28: coarsening composes: for every well-formed 4-digit key k and all
\* resolutions r1, r2 of 1, 10, 50, 100 with r2 >= r1, converting k to r1 and
\* the result to r2 gives the same key as converting k to r2 directly.
C28_Composes ==
    (reconverted # Unset /\ resolution_km >= target_resolution_km)
    => reconverted = convert_to_resolution(grid_cell, resolution_km)

\* 9459:3458 went to 50 km (945:345) and from there to 100 km (94:34).
C28_Witness ==
    /\ grid_cell = <<"9", "4", "5", "9", ":", "3", "4", "5", "8">>
    /\ target_resolution_km = 50
    /\ resolution_km = 100
    /\ converted = Str(<<"9", "4", "5", ":", "3", "4", "5">>)
    /\ reconverted = Str(<<"9", "4", ":", "3", "4">>)

(***************************************************************************)
(* Claims about the command line of generate_map (checked under SpecCli).  *)
(***************************************************************************)
FileExists(config) == config.input_file \in {"ok", "unreadable"}

\* C29: the validation of the command line agrees with the pipeline: for a
\* configuration whose input file exists, validate_config accepts it (so that
\* run_config goes on to call process_data) if and only if process_data
\* accepts its method and resolution, that is, its method is in the registry
\* METHODS and its resolution is one of 1, 10, 50, 100.
C29_ValidationAgrees ==
    \A i \in 1..Len(reports) :
        (reports[i].name \in DOMAIN configs /\ FileExists(configs[reports[i].name]))
        => (reports[i].called
               <=> /\ configs[reports[i].name].method \in METHODS
                   /\ configs[reports[i].name].resolution_km \in ValidResolutions)

\* The number of steps of process_data that the calls reported so far made.
RECURSIVE StepsReported(_)
StepsReported(reps) ==
    IF Len(reps) = 0 THEN 0
    ELSE Len(Head(reps).effects) + StepsReported(Tail(reps))

\* C30: the run loop processes every requested configuration name exactly
\* once, in the given order; a configuration that is unknown, invalid, or
\* whose process_data raises is reported as failed (run_config returns False)
\* without stopping the loop, so that the process ends only after all names
\* were attempted; process_data is never called for an unknown or invalid
\* configuration; success_count is the number of configurations that
\* completed; and the exit status is 1 exactly when success_count is below
\* the number of names.
C30_RunLoop ==
    /\ Len(reports) <= Len(config_names)
    /\ \A i \in 1..Len(reports) :
          /\ reports[i].name = config_names[i]
          /\ reports[i].returned.tag = "bool"
          /\ (\/ reports[i].name \notin DOMAIN configs
              \/ validate_config(configs[reports[i].name]) # Validation(TRUE, "None"))
             => /\ reports[i].returned = Bool(FALSE)
                /\ ~reports[i].called
                /\ reports[i].effects = <<>>
          /\ reports[i].returned = Bool(TRUE)
             => /\ reports[i].called
                /\ "create_finland_map" \in set_of(reports[i].effects)
    /\ Len(effects) = StepsReported(reports)
    /\ success_count =
          Cardinality({i \in 1..Len(reports) : reports[i].returned = Bool(TRUE)})
    /\ exit_status # Unset
       => /\ Len(reports) = Len(config_names)
          /\ (exit_status = ExitStatus(1) <=> success_count < Len(config_names))
          /\ exit_status \in {ExitStatus(0), ExitStatus(1)}

====
